---- MODULE Spec2Model ----
(***************************************************************************)
(* Photo triage agent: the LangGraph triage workflow (agent-server), the   *)
(* Triage Router's temp-file handling and the MCP server's batch           *)
(* processor, as state machines.                                           *)
(***************************************************************************)
EXTENDS Integers, Sequences, FiniteSets, TLC

\* ------------------------------------------------------------------ bounds
\* Largest number of images in one workflow run.
MaxImages == 1
\* Largest value the model gives settings.max_retry_attempts (an attempt
\* count: the model draws it from 1..MaxRetrySetting).
MaxRetrySetting == 3

\* Analyze passes after which the model stops a run that never terminates
\* (never reached by the code as written: a run makes at most max_attempts).
MaxAnalyzeRuns == MaxRetrySetting + 2

\* ------------------------------------------------------------- value sets
\* Optional values (Python None / a value).
None == [none |-> TRUE, v |-> <<>>]
Some(x) == [none |-> FALSE, v |-> x]

\* A quality result as the nodes read it: passes_threshold true ("pass"),
\* false with a grade ("fail"), or an {error, image_path} map ("error").
QualityKinds == {"pass", "fail", "error"}
\* A classify_photo tool result as the Classify node reads it: a map with
\* image_data ("data"), a success map without image_data ("nodata", what
\* PhotoClassifierTool.classify returns), or {error, image_path} ("error").
PhotoKinds == {"data", "nodata", "error"}
\* The category LLMService.classify_photo returns, as create_summary and
\* Reflect read it: "other" or a taxonomy category that is not "other".
Categories == {"other", "equipment_photo"}
\* LLMService.generate_feedback's return value: prose, or None when the
\* completion carries no content.
LLMFeedbackKinds == {"text", "null"}

SeqsOf(S, n) == [1..n -> S]

\* Number of entries of sequence s equal to x.
Count(s, x) == Cardinality({i \in DOMAIN s : s[i] = x})

Min(a, b) == IF a < b THEN a ELSE b

\* s[:k]
Prefix(s, k) == SubSeq(s, 1, Min(k, Len(s)))

\* ---------------------------------------------------------------- state
VARIABLES
    settings,       \* config/settings.py: reflection_enabled, max_retry_attempts
    variant,        \* "composed" (services/triage_agent.py) or "monolithic" (services/langgraph_agent.py)
    enable_retry,   \* run_triage_workflow's argument
    pc,             \* the node the graph runs next; "END"; "returned"
    state,          \* the TriageState of the run
    client_closed,  \* monolithic: self.mcp_client's connection pool was released
    analyze_runs,   \* executions of the Analyze node in this run
    last_node,      \* the node that ran last
    last_route,     \* what the last conditional edge returned
    result          \* run_triage_workflow's return value

wfVars == <<settings, variant, enable_retry, pc, state, client_closed,
            analyze_runs, last_node, last_route, result>>

\* --- api/routers/triage.py: one request to one Triage Router handler
VARIABLES
    rt_endpoint,     \* the handler serving the request
    rt_request,      \* the request's image fields, one entry per image
    rt_tmpdir,       \* tempfile's directory
    rt_pc,           \* the handler's position
    rt_i,            \* index of the next image to prepare
    rt_image_paths,  \* the handler's local image_path / image_paths
    temp_files,      \* temporary files existing on disk
    rt_created,      \* temporary files the handler has created
    background_tasks,\* cleanup task added to BackgroundTasks
    rt_tool,         \* outcome of the MCP / orchestrator call
    rt_status,       \* HTTP status of the response
    rt_events        \* events yielded by generate_stream

rtVars == <<rt_endpoint, rt_request, rt_tmpdir, rt_pc, rt_i, rt_image_paths,
            temp_files, rt_created, background_tasks, rt_tool, rt_status,
            rt_events>>

\* --- mcp-server/tools/batch_processor.py: one call of process
VARIABLES
    bp_paths,          \* number of input paths (path i is the i-th input)
    bp_pc,             \* position inside process
    bp_classifications,   \* outcome of each classification task, by index
    bp_quality_analyses,  \* outcome of each quality task, by index
    bp_completed,      \* tasks of the running gather in completion order
    bp_result          \* the value process returns

bpVars == <<bp_paths, bp_pc, bp_classifications, bp_quality_analyses,
            bp_completed, bp_result>>

NoTasks == [scheduled |-> FALSE, paths |-> {}]

\* No request is being served.
RouterIdle ==
    /\ rt_endpoint = "none"
    /\ rt_request = <<>>
    /\ rt_tmpdir = "/tmp"
    /\ rt_pc = "idle"
    /\ rt_i = 1
    /\ rt_image_paths = <<>>
    /\ temp_files = {}
    /\ rt_created = {}
    /\ background_tasks = NoTasks
    /\ rt_tool = "none"
    /\ rt_status = 0
    /\ rt_events = <<>>

\* No batch call is running.
BatchIdle ==
    /\ bp_paths = 0
    /\ bp_pc = "idle"
    /\ bp_classifications = <<>>
    /\ bp_quality_analyses = <<>>
    /\ bp_completed = [classify |-> <<>>, quality |-> <<>>]
    /\ bp_result = [kind |-> "none"]

\* --- one call of a function of the code base
VARIABLES
    call_fn,         \* the function called
    call_args,       \* its arguments
    call_result      \* what it returned or raised; NotCalled before the call

callVars == <<call_fn, call_args, call_result>>

NotCalled == [kind |-> "not_called"]

\* No function call is being followed.
CallIdle ==
    /\ call_fn = "none"
    /\ call_args = <<>>
    /\ call_result = NotCalled

\* --- mcp-server/mcp/photo_server.py: one tool request to the MCP server
VARIABLES
    srv_mode,        \* "call" (/tools/call) or "stream" (/tools/call/stream)
    srv_name,        \* the request's tool name
    srv_arguments,   \* the request's arguments
    srv_pc,          \* position in call_tool / stream_tool_execution
    srv_result,      \* what call_tool returned
    srv_events       \* events yielded by stream_tool_execution

srvVars == <<srv_mode, srv_name, srv_arguments, srv_pc, srv_result,
             srv_events>>

\* No tool request is being served.
ServerIdle ==
    /\ srv_mode = "none"
    /\ srv_name = "none"
    /\ srv_arguments = [required |-> FALSE, image_paths |-> 0]
    /\ srv_pc = "idle"
    /\ srv_result = [kind |-> "none"]
    /\ srv_events = <<>>

\* --- services/triage_agent.py: events yielded by run_triage_workflow_stream
VARIABLES stream_events

StreamIdle == stream_events = <<>>

\* --- two workflow runs in one process
VARIABLES
    cc_runs,         \* per run: position, state map, enable_retry
    cc_heap,         \* the list objects the state maps refer to
    cc_last          \* the run that took the latest step

ccVars == <<cc_runs, cc_heap, cc_last>>

RunIds == {1, 2}

NotStarted == [pc |-> "not_started"]

ConcurrentIdle ==
    /\ cc_runs = [r \in RunIds |-> NotStarted]
    /\ cc_heap = <<>>
    /\ cc_last = 0

\* --- agent-server/services/mcp_client.py: one scope of an MCPHttpClient
VARIABLES
    mc_pc,           \* position: created, in_scope, left, ...
    mc_session_id,   \* self.session_id
    mc_closed,       \* self.client's connection pool was released
    mc_sent,         \* the requests sent so far, in order
    mc_init          \* what the server answered to initialize

mcVars == <<mc_pc, mc_session_id, mc_closed, mc_sent, mc_init>>

\* No client scope is being followed.
ClientIdle ==
    /\ mc_pc = "none"
    /\ mc_session_id = "None"
    /\ mc_closed = FALSE
    /\ mc_sent = <<>>
    /\ mc_init = [kind |-> "none"]

extVars == <<callVars, srvVars, stream_events, ccVars, mcVars>>

ExtIdle ==
    CallIdle /\ ServerIdle /\ StreamIdle /\ ConcurrentIdle /\ ClientIdle

\* ----------------------------------------------------- models/state.py
\* Mutant: attempts counted from 0.
create_initial_state_zero_based(n, max_attempts) ==
    [ messages         |-> <<"human">>,
      image_paths      |-> n,
      current_attempt  |-> 0,
      max_attempts     |-> max_attempts,
      raw_photo_data   |-> None,
      quality_results  |-> None,
      analysis_results |-> [kind |-> "none"],
      quality_issues   |-> <<>>,
      reflection_notes |-> <<>>,
      final_feedback   |-> "None",
      retry_needed     |-> FALSE,
      completed        |-> FALSE ]

create_initial_state(n, max_attempts) ==
    [ messages         |-> <<"human">>,
      image_paths      |-> n,
      current_attempt  |-> 1,
      max_attempts     |-> max_attempts,
      raw_photo_data   |-> None,
      quality_results  |-> None,
      analysis_results |-> [kind |-> "none"],
      quality_issues   |-> <<>>,
      reflection_notes |-> <<>>,
      final_feedback   |-> "None",
      retry_needed     |-> FALSE,
      completed        |-> FALSE ]

\* Python truthiness of state["analysis_results"]: None and {} are falsy.
Truthy(ar) == ar.kind # "none"
\* "results" in analysis_results
HasResults(ar) == ar.kind = "results"
\* analysis_results.get("summary", {}) carries quality_pass_rate
HasPassRate(ar) == ar.kind = "results" /\ ar.has_rate

\* quality_pass_rate < num/den, the rate being passes/total
RateBelow(ar, num, den) == ar.passes * den < num * ar.total

\* ------------------------------------------------ workflow/conditions.py
\* Mutant: reflection needs recorded issues and a low pass rate.
should_reflect_needs_both(st) ==
    IF ~settings.reflection_enabled THEN "generate_feedback"
    ELSE IF ~Truthy(st.analysis_results) THEN "generate_feedback"
    ELSE IF /\ Len(st.quality_issues) > 0
            /\ HasPassRate(st.analysis_results)
            /\ RateBelow(st.analysis_results, 7, 10)
         THEN "reflect" ELSE "generate_feedback"

should_reflect(st) ==
    IF ~settings.reflection_enabled THEN "generate_feedback"
    ELSE IF ~Truthy(st.analysis_results) THEN "generate_feedback"
    ELSE LET quality_issues_exist == Len(st.quality_issues) > 0
             low_quality_rate ==
                 IF HasPassRate(st.analysis_results)
                 THEN RateBelow(st.analysis_results, 7, 10)
                 ELSE FALSE      \* default 1.0 < 0.7
         IN IF quality_issues_exist \/ low_quality_rate
            THEN "reflect" ELSE "generate_feedback"

\* Mutant: the retry_needed flag is not consulted.
should_retry_ignores_flag(st) ==
    IF st.current_attempt >= st.max_attempts THEN "generate_feedback"
    ELSE "retry"

should_retry(st) ==
    IF ~st.retry_needed THEN "generate_feedback"
    ELSE IF st.current_attempt >= st.max_attempts THEN "generate_feedback"
    ELSE "retry"

\* --------------------------------------------------- nodes/analysis.py
\* quality_issues: one entry per image whose quality result does not pass,
\* in image order ("Image <path>: <grade> quality"; the grade of an error
\* result is the default "poor").
QualityIssues(q) ==
    LET all == [i \in DOMAIN q |->
                  [tag |-> IF q[i] = "pass" THEN "pass"
                           ELSE IF q[i] = "fail" THEN "image_graded"
                           ELSE "image_poor",
                   n |-> i]]
    IN SelectSeq(all, LAMBDA e : e.tag # "pass")

AnalysisError == <<[tag |-> "analysis_error", n |-> 0]>>

\* The result of the node's MCP scope: raised (initialize or any tool call
\* failed), or the two lists the loop collected.
AnalyzeOutcomes(n) ==
    {[ok |-> FALSE, quality |-> <<>>, photos |-> <<>>]}
    \cup {[ok |-> TRUE, quality |-> q, photos |-> p] :
            q \in SeqsOf(QualityKinds, n), p \in SeqsOf(PhotoKinds, n)}

\* What a node hands the graph when an exception leaves it.
Raised == [raised |-> TRUE]

\* Mutant: the node has no try/except around its MCP scope.
analyze_photos_unguarded(st, o) ==
    IF o.ok
    THEN [st EXCEPT !.raw_photo_data = Some(o.photos),
                    !.quality_results = Some(o.quality),
                    !.messages = Append(@, "preprocessing_completed"),
                    !.quality_issues = QualityIssues(o.quality)]
    ELSE Raised

analyze_photos(st, o) ==
    IF o.ok
    THEN [st EXCEPT !.raw_photo_data = Some(o.photos),
                    !.quality_results = Some(o.quality),
                    !.messages = Append(@, "preprocessing_completed"),
                    !.quality_issues = QualityIssues(o.quality)]
    ELSE [st EXCEPT !.messages = Append(@, "analysis_failed"),
                    !.quality_issues = AnalysisError]

\* ------------------------------------------------------ llm/services.py
\* create_summary: {} for no classification, else the pass rate
\* (passes/total), the category histogram (other: the "other" count) and
\* average_combined_score, the mean of qa.get("combined_score", 0): the
\* quality results carry no combined_score, so it is 0 (< 0.5).
create_summary(classifications, quality_results) ==
    LET total == Len(classifications)
    IN [has_rate |-> total > 0,
        passes   |-> Count(quality_results, "pass"),
        total    |-> total,
        other    |-> Cardinality({i \in DOMAIN classifications :
                                    classifications[i].category = "other"}),
        avg_low  |-> TRUE]

\* ----------------------------------------------- nodes/classification.py
ErrorResults == [kind |-> "error"]

\* Mutant: a failed classification leaves analysis_results as it was.
classify_photos_with_llm_no_fallback(st, cats) ==
    LET failed == [st EXCEPT !.messages = Append(@, "llm_failed")]
    IN  IF st.raw_photo_data.none
        THEN failed     \* iterating None raises TypeError
        ELSE
          LET photos == st.raw_photo_data.v
          IN  IF \E i \in DOMAIN photos : photos[i] = "nodata"
              THEN failed     \* photo_data["image_data"] raises KeyError
              ELSE
                LET classifications ==
                        [i \in DOMAIN photos |->
                           IF photos[i] = "error"
                           THEN [category |-> "other", processing_error |-> TRUE]
                           ELSE [category |-> cats[i], processing_error |-> FALSE]]
                    summary == create_summary(classifications, st.quality_results.v)
                IN [st EXCEPT
                      !.analysis_results =
                          [kind     |-> "results",
                           results  |-> [i \in DOMAIN photos |->
                                           [image_path |-> i,
                                            classification |-> classifications[i],
                                            quality_analysis |-> st.quality_results.v[i]]],
                           has_rate |-> summary.has_rate,
                           passes   |-> summary.passes,
                           total    |-> summary.total,
                           other    |-> summary.other,
                           avg_low  |-> summary.avg_low],
                      !.messages = Append(@, "llm_completed")]

classify_photos_with_llm(st, cats) ==
    LET failed == [st EXCEPT !.messages = Append(@, "llm_failed"),
                             !.analysis_results = ErrorResults]
    IN  IF st.raw_photo_data.none
        THEN failed     \* iterating None raises TypeError
        ELSE
          LET photos == st.raw_photo_data.v
          IN  IF \E i \in DOMAIN photos : photos[i] = "nodata"
              THEN failed     \* photo_data["image_data"] raises KeyError
              ELSE
                LET classifications ==
                        [i \in DOMAIN photos |->
                           IF photos[i] = "error"
                           THEN [category |-> "other", processing_error |-> TRUE]
                           ELSE [category |-> cats[i], processing_error |-> FALSE]]
                    summary == create_summary(classifications, st.quality_results.v)
                IN [st EXCEPT
                      !.analysis_results =
                          [kind     |-> "results",
                           results  |-> [i \in DOMAIN photos |->
                                           [image_path |-> i,
                                            classification |-> classifications[i],
                                            quality_analysis |-> st.quality_results.v[i]]],
                           has_rate |-> summary.has_rate,
                           passes   |-> summary.passes,
                           total    |-> summary.total,
                           other    |-> summary.other,
                           avg_low  |-> summary.avg_low],
                      !.messages = Append(@, "llm_completed")]

\* --------------------------------------------------- nodes/reflection.py
Note(t) == [tag |-> t, n |-> 0]

\* Mutant: Reflect marks the run completed when it asks for no retry.
reflect_on_results_completes(st) ==
    [st EXCEPT !.reflection_notes = Append(@, Note("looks_good")),
               !.messages = Append(@, "reflection_completed"),
               !.retry_needed = FALSE,
               !.completed = TRUE]

reflect_on_results(st) ==
    LET ar == st.analysis_results
    IN  IF ~Truthy(ar)
        THEN [st EXCEPT !.reflection_notes = Append(@, Note("no_results"))]
        ELSE
          LET \* results.get("summary", {}).get("quality_pass_rate", 0)
              below_threshold == IF HasPassRate(ar) THEN RateBelow(ar, 7, 10) ELSE TRUE
              below_half      == IF HasPassRate(ar) THEN RateBelow(ar, 1, 2) ELSE TRUE
              many_other == /\ HasPassRate(ar)
                            /\ ar.other > 0
                            /\ ar.other * 10 > st.image_paths * 3
              avg_low == IF HasPassRate(ar) THEN ar.avg_low ELSE TRUE
              n1 == IF below_threshold
                    THEN <<Note("low_pass_rate"), Note("retake")>> ELSE <<>>
              n2 == IF many_other THEN <<Note("uncategorized")>> ELSE <<>>
              n3 == IF avg_low
                    THEN <<Note("low_average"), Note("needs_improvement")>> ELSE <<>>
              notes == IF n1 \o n2 \o n3 = <<>>
                       THEN <<Note("looks_good")>> ELSE n1 \o n2 \o n3
          IN [st EXCEPT !.reflection_notes = @ \o notes,
                        !.messages = Append(@, "reflection_completed"),
                        !.retry_needed = /\ below_half
                                         /\ st.current_attempt < st.max_attempts
                                         /\ settings.reflection_enabled]

\* Mutant: the retry step forgets to count the attempt.
prepare_retry_no_increment(st) ==
    [st EXCEPT !.reflection_notes =
                   @ \o <<[tag |-> "retry_attempt", n |-> st.current_attempt]>>,
               !.messages = Append(@, "preparing_retry")]

prepare_retry(st) ==
    LET attempt == st.current_attempt + 1
    IN [st EXCEPT !.current_attempt = attempt,
                  !.reflection_notes =
                      @ \o <<[tag |-> "retry_attempt", n |-> attempt]>>
                        \o [i \in DOMAIN Prefix(st.quality_issues, 3) |->
                              Note("quality_issue")],
                  !.messages = Append(@, "preparing_retry")]

\* ----------------------------------------------------- nodes/feedback.py
\* Mutant: without results the step ends as a failure.
generate_final_feedback_needs_results(st, mcp_ok, llm) ==
    LET failed == [st EXCEPT !.final_feedback = "failed"]
        done(fb) == [st EXCEPT !.final_feedback = fb,
                               !.completed = TRUE,
                               !.messages = Append(@, "feedback_generated")]
    IN  IF Truthy(st.analysis_results) /\ HasResults(st.analysis_results)
        THEN IF ~mcp_ok THEN failed
             ELSE IF llm = "null"
                  THEN \* _enhance_feedback_with_reflection(None, notes)
                       IF st.reflection_notes = <<>> THEN done("None")
                       ELSE failed      \* None + str raises TypeError
                  ELSE done("feedback")
        ELSE failed

\* mcp_ok: the scoped generate_feedback call returned; llm: what
\* LLMService.generate_feedback returned.
generate_final_feedback(st, mcp_ok, llm) ==
    LET failed == [st EXCEPT !.final_feedback = "failed"]
        done(fb) == [st EXCEPT !.final_feedback = fb,
                               !.completed = TRUE,
                               !.messages = Append(@, "feedback_generated")]
    IN  IF Truthy(st.analysis_results) /\ HasResults(st.analysis_results)
        THEN IF ~mcp_ok THEN failed
             ELSE IF llm = "null"
                  THEN \* _enhance_feedback_with_reflection(None, notes)
                       IF st.reflection_notes = <<>> THEN done("None")
                       ELSE failed      \* None + str raises TypeError
                  ELSE done("feedback")
        ELSE done("could_not_complete")

\* -------------------------------------- services/langgraph_agent.py
\* The monolithic TriageAgent: Analyze is one process_batch call made in a
\* scope of the agent's own MCP client; there is no Classify node.
\* The scope's outcome: "init_raised" (initialize raised: the scope was not
\* entered, the client stays open), "call_raised", "error_result" (an
\* {error, image_paths} map), "batch" (results and summary per image).
MonoAnalyzeOutcomes(n) ==
    {[kind |-> k, quality |-> <<>>, cats |-> <<>>, avg_low |-> TRUE] :
        k \in {"init_raised", "call_raised", "error_result"}}
    \cup {[kind |-> "batch", quality |-> q, cats |-> c, avg_low |-> a] :
            q \in SeqsOf(QualityKinds, n), c \in SeqsOf(Categories, n),
            a \in BOOLEAN}

\* A scope of a client whose pool was released raises in initialize.
MonoScope(closed, k) == IF closed THEN "init_raised" ELSE k

\* A process_batch result as the agent reads it: one result per image and
\* the summary's quality_pass_rate, categories and average_combined_score.
BatchResults(quality, cats, avg_low) ==
    [kind     |-> "results",
     results  |-> [i \in DOMAIN quality |->
                     [image_path |-> i,
                      classification |->
                          [category |-> cats[i], processing_error |-> FALSE],
                      quality_analysis |-> quality[i]]],
     has_rate |-> Len(quality) > 0,
     passes   |-> Count(quality, "pass"),
     total    |-> Len(quality),
     other    |-> Count(cats, "other"),
     avg_low  |-> avg_low]

mono_analyze_photos(st, closed, o) ==
    LET k == MonoScope(closed, o.kind)
    IN  IF k \in {"init_raised", "call_raised"}
        THEN [st EXCEPT !.messages = Append(@, "analysis_failed"),
                        !.quality_issues = AnalysisError]
        ELSE IF k = "error_result"
        THEN [st EXCEPT !.analysis_results = ErrorResults,
                        !.messages = Append(@, "analysis_completed"),
                        !.quality_issues = <<>>]
        ELSE [st EXCEPT
                !.analysis_results = BatchResults(o.quality, o.cats, o.avg_low),
                !.messages = Append(@, "analysis_completed"),
                !.quality_issues = QualityIssues(o.quality)]

\* __aexit__ closes the client whenever the scope was entered.
ClosedAfterScope(closed, k) == closed \/ MonoScope(closed, k) # "init_raised"

mono_generate_final_feedback(st, closed, mcp_ok) ==
    LET failed == [st EXCEPT !.final_feedback = "failed"]
        done(fb) == [st EXCEPT !.final_feedback = fb,
                               !.completed = TRUE,
                               !.messages = Append(@, "feedback_generated")]
    IN  IF Truthy(st.analysis_results) /\ HasResults(st.analysis_results)
        THEN IF closed \/ ~mcp_ok THEN failed ELSE done("feedback")
        ELSE done("could_not_complete")

\* ------------------------------------------------ the compiled graphs
\* Mutant: the retry node leads back to classify_with_llm.
NextNode_retry_skips_analyze(v, node, st) ==
    CASE node = "analyze" ->
            IF v = "composed" THEN "classify_with_llm" ELSE should_reflect(st)
      [] node = "classify_with_llm" -> should_reflect(st)
      [] node = "reflect" ->
            LET r == should_retry(st)
            IN IF r = "retry" THEN "retry" ELSE "generate_feedback"
      [] node = "retry" ->
            IF v = "composed" THEN "classify_with_llm" ELSE "analyze"
      [] node = "generate_feedback" -> "END"

\* workflow/builder.py (composed) and TriageAgent._build_workflow
\* (monolithic): the node that follows node `node` in state st.
NextNode(v, node, st) ==
    CASE node = "analyze" ->
            IF v = "composed" THEN "classify_with_llm" ELSE should_reflect(st)
      [] node = "classify_with_llm" -> should_reflect(st)
      [] node = "reflect" ->
            LET r == should_retry(st)
            IN IF r = "retry" THEN "retry" ELSE "generate_feedback"
      [] node = "retry" -> "analyze"
      [] node = "generate_feedback" -> "END"

\* The value the conditional edge leaving `node` returned ("" for a plain edge).
Route(v, node, st) ==
    CASE node = "analyze" /\ v = "monolithic" -> should_reflect(st)
      [] node = "classify_with_llm" -> should_reflect(st)
      [] node = "reflect" -> should_retry(st)
      [] OTHER -> ""

NoResult == [returned |-> FALSE]

\* Mutant: the enable_retry flag is ignored.
MaxAttemptsFor_ignore_flag(retry, cfg) == cfg.max_retry_attempts

\* services/triage_agent.py: run_triage_workflow up to graph.ainvoke
MaxAttemptsFor(retry, cfg) == IF retry THEN cfg.max_retry_attempts ELSE 1

WorkflowInit ==
    /\ settings \in [reflection_enabled : BOOLEAN,
                     max_retry_attempts : 1..MaxRetrySetting]
    /\ variant \in {"composed", "monolithic"}
    /\ enable_retry \in BOOLEAN
    /\ \E n \in 0..MaxImages :
         state = create_initial_state(n, MaxAttemptsFor(enable_retry, settings))
    /\ pc = "analyze"
    /\ client_closed = FALSE
    /\ analyze_runs = 0
    /\ last_node = "START"
    /\ last_route = ""
    /\ result = NoResult
    /\ RouterIdle
    /\ BatchIdle
    /\ ExtIdle

\* A node that raises ends graph.ainvoke with its exception.
Step(node, st) ==
    /\ state' = IF st = Raised THEN state ELSE st
    /\ pc' = IF st = Raised THEN "raised" ELSE NextNode(variant, node, st)
    /\ last_route' = IF st = Raised THEN "" ELSE Route(variant, node, st)
    /\ last_node' = node
    /\ UNCHANGED <<settings, variant, enable_retry, result, rtVars, bpVars,
                   extVars>>

Analyze ==
    /\ pc = "analyze"
    /\ analyze_runs < MaxAnalyzeRuns
    /\ analyze_runs' = analyze_runs + 1
    /\ IF variant = "composed"
       THEN \E o \in AnalyzeOutcomes(state.image_paths) :
              /\ Step("analyze", analyze_photos(state, o))
              /\ UNCHANGED client_closed
       ELSE \E o \in MonoAnalyzeOutcomes(state.image_paths) :
              /\ Step("analyze", mono_analyze_photos(state, client_closed, o))
              /\ client_closed' = ClosedAfterScope(client_closed, o.kind)

Classify ==
    /\ pc = "classify_with_llm"
    /\ \E cats \in SeqsOf(Categories, state.image_paths) :
         Step("classify_with_llm", classify_photos_with_llm(state, cats))
    /\ UNCHANGED <<client_closed, analyze_runs>>

Reflect ==
    /\ pc = "reflect"
    /\ Step("reflect", reflect_on_results(state))
    /\ UNCHANGED <<client_closed, analyze_runs>>

Retry ==
    /\ pc = "retry"
    /\ Step("retry", prepare_retry(state))
    /\ UNCHANGED <<client_closed, analyze_runs>>

Feedback ==
    /\ pc = "generate_feedback"
    /\ \E mcp_ok \in BOOLEAN :
         IF variant = "composed"
         THEN \E llm \in LLMFeedbackKinds :
                /\ Step("generate_feedback",
                        generate_final_feedback(state, mcp_ok, llm))
                /\ UNCHANGED client_closed
         ELSE /\ Step("generate_feedback",
                      mono_generate_final_feedback(state, client_closed, mcp_ok))
              /\ client_closed' =
                   IF HasResults(state.analysis_results)
                   THEN ClosedAfterScope(client_closed,
                                         IF mcp_ok THEN "ok" ELSE "init_raised")
                   ELSE client_closed
    /\ UNCHANGED analyze_runs

\* Mutant: the result reports the attempts allowed, not those made.
WorkflowResult_reports_max_attempts(st) ==
    [returned |-> TRUE, success |-> TRUE,
     analysis_results |-> st.analysis_results,
     final_feedback |-> st.final_feedback,
     attempts_made |-> st.max_attempts,
     quality_issues |-> st.quality_issues,
     reflection_notes |-> st.reflection_notes]

\* run_triage_workflow's return after graph.ainvoke
WorkflowResult(st) ==
    [returned |-> TRUE, success |-> TRUE,
     analysis_results |-> st.analysis_results,
     final_feedback |-> st.final_feedback,
     attempts_made |-> st.current_attempt,
     quality_issues |-> st.quality_issues,
     reflection_notes |-> st.reflection_notes]

\* run_triage_workflow's return from its except branch
WorkflowFailure ==
    [returned |-> TRUE, success |-> FALSE,
     analysis_results |-> [kind |-> "none"],
     final_feedback |-> "None"]

Return ==
    /\ pc \in {"END", "raised"}
    /\ result' = IF pc = "END" THEN WorkflowResult(state) ELSE WorkflowFailure
    /\ pc' = "returned"
    /\ UNCHANGED <<settings, variant, enable_retry, state, client_closed,
                   analyze_runs, last_node, last_route, rtVars, bpVars,
                   extVars>>

WorkflowNext == Analyze \/ Classify \/ Reflect \/ Retry \/ Feedback \/ Return

Init == WorkflowInit
Next == WorkflowNext
vars == <<wfVars, rtVars, bpVars, extVars>>
Spec == Init /\ [][Next]_vars
\* The graph executor runs each scheduled node to completion: every MCP and
\* LLM call returns or raises (the HTTP client's timeout is 120 s).
FairSpec == Spec /\ WF_vars(Next)

\* The runs of the graph workflow/builder.py compiles.
ComposedInit == WorkflowInit /\ variant = "composed"
ComposedFairSpec == ComposedInit /\ [][Next]_vars /\ WF_vars(Next)

\* ------------------------------------- the branch predicates on their own
\* workflow/conditions.py as pure functions of a TriageState: every shape of
\* analysis_results (absent, {error}, results with any pass rate) with every
\* quality_issues list, under both settings of reflection_enabled.
AnalysisResultsValues ==
    {[kind |-> "none"], ErrorResults}
    \cup UNION {{BatchResults(q, c, a) :
                    q \in SeqsOf(QualityKinds, n), c \in SeqsOf(Categories, n),
                    a \in BOOLEAN} : n \in 0..MaxImages}

QualityIssuesValues ==
    {<<>>, AnalysisError}
    \cup UNION {{QualityIssues(q) : q \in SeqsOf(QualityKinds, n)} : n \in 0..MaxImages}

ConditionsInit ==
    /\ settings \in [reflection_enabled : BOOLEAN,
                     max_retry_attempts : {MaxRetrySetting}]
    /\ variant = "composed"
    /\ enable_retry = TRUE
    /\ \E ar \in AnalysisResultsValues, qi \in QualityIssuesValues :
         state = [create_initial_state(MaxImages, settings.max_retry_attempts)
                    EXCEPT !.analysis_results = ar, !.quality_issues = qi]
    /\ pc = "should_reflect"
    /\ client_closed = FALSE
    /\ analyze_runs = 0
    /\ last_node = "START"
    /\ last_route = ""
    /\ result = NoResult
    /\ RouterIdle
    /\ BatchIdle
    /\ ExtIdle

EvalShouldReflect ==
    /\ pc = "should_reflect"
    /\ last_route' = should_reflect(state)
    /\ pc' = "evaluated"
    /\ UNCHANGED <<settings, variant, enable_retry, state, client_closed,
                   analyze_runs, last_node, result, rtVars, bpVars,
                   extVars>>

ConditionsNext == EvalShouldReflect

ConditionsSpec == ConditionsInit /\ [][ConditionsNext]_vars

\* ------------------------------------------------ api/routers/triage.py
MaxRequestImages == 2
MaxChunks == 2

Endpoints == {"classify", "analyze_quality", "process_batch", "workflow",
              "process_batch_stream"}
SingleImageEndpoints == {"classify", "analyze_quality"}
BatchEndpoints == {"process_batch", "workflow", "process_batch_stream"}

\* A single-image request: image_base64 set and decodable, image_base64 set
\* with incorrect padding, only image_url set, or neither field set.
SingleImageFields == {"base64_valid", "base64_invalid", "url_only", "neither"}

\* One entry of request.images: an "image_base64" key (decodable or not), or
\* no such key, in which case test_paths[i] exists on disk or does not.
ImageEntries == {"base64_valid", "base64_invalid", "test_image", "no_image"}

Requests(endpoint) ==
    IF endpoint \in SingleImageEndpoints
    THEN SeqsOf(SingleImageFields, 1)
    ELSE UNION {SeqsOf(ImageEntries, n) : n \in 0..MaxRequestImages}

\* tempfile.gettempdir(): /tmp, or the directory TMPDIR names.
TempDirs == {"/tmp", "/var/tmp"}

\* NamedTemporaryFile(delete=False) creates file f before the data is
\* decoded; a decode failure raises HTTPException(400) and leaves f.
save_temp_image(files, f, decodable) ==
    [temp_files |-> files \cup {f},
     raised     |-> IF decodable THEN 0 ELSE 400]

TempPath(f) == [temp |-> TRUE, id |-> f]
TestImagePath(i) == [temp |-> FALSE, id |-> i]

\* path.startswith("/tmp")
StartsWithTmp(path, tmpdir) == path.temp /\ tmpdir = "/tmp"

\* Mutant: the temp file is left in place.
unlink_image_path_skipped(files, paths) == files

\* if image_path and os.path.exists(image_path): os.unlink(image_path)
unlink_image_path(files, paths) ==
    files \ {paths[k].id : k \in {j \in DOMAIN paths : paths[j].temp}}

\* for path in image_paths: if path.startswith("/tmp") and exists: unlink
unlink_tmp_paths(files, paths, tmpdir) ==
    files \ {paths[k].id :
                k \in {j \in DOMAIN paths : StartsWithTmp(paths[j], tmpdir)}}

\* [p for p in image_paths if p.startswith("/tmp")]
TmpPaths(paths, tmpdir) ==
    {paths[k].id : k \in {j \in DOMAIN paths : StartsWithTmp(paths[j], tmpdir)}}

\* except Exception as e: raise HTTPException(status_code=500, ...).
\* HTTPException is an Exception, so one raised in the try body is caught
\* here too and its status replaced.
except_Exception(raised_status) == 500

\* Outcome of the call inside the handler: the tool's result map, the
\* tool's {error} map, or an exception out of the client scope. The
\* orchestrator catches its own exceptions and returns success False.
CallOutcomes(endpoint) ==
    IF endpoint = "workflow" THEN {"ok", "tool_error"}
    ELSE {"ok", "tool_error", "raised"}

Event(status) == [status |-> status]

\* error_data = {"error": "No valid images provided", "request_id": ...}:
\* the event has no status key.
NoImagesEvent == [status |-> "absent", error |-> "No valid images provided"]

\* No workflow is running.
WorkflowIdle ==
    /\ settings = [reflection_enabled |-> TRUE,
                   max_retry_attempts |-> MaxRetrySetting]
    /\ variant = "monolithic"
    /\ enable_retry = TRUE
    /\ state = create_initial_state(0, MaxRetrySetting)
    /\ pc = "idle"
    /\ client_closed = FALSE
    /\ analyze_runs = 0
    /\ last_node = "START"
    /\ last_route = ""
    /\ result = NoResult

RouterInit ==
    /\ rt_endpoint \in Endpoints
    /\ rt_request \in Requests(rt_endpoint)
    /\ rt_tmpdir \in TempDirs
    /\ rt_pc = "prepare"
    /\ rt_i = 1
    /\ rt_image_paths = <<>>
    /\ temp_files = {}
    /\ rt_created = {}
    /\ background_tasks = NoTasks
    /\ rt_tool = "none"
    /\ rt_status = 0
    /\ rt_events = <<>>
    /\ WorkflowIdle
    /\ BatchIdle
    /\ ExtIdle

\* An exception leaves the try body of the handler.
RtRaise(raised_status) ==
    IF rt_endpoint = "process_batch_stream"
    THEN /\ rt_events' = Append(rt_events, Event("error"))
         /\ rt_status' = 200
    ELSE /\ rt_status' = except_Exception(raised_status)
         /\ UNCHANGED rt_events

\* Image preparation, one image per step.
RtPrepareImage ==
    /\ rt_pc = "prepare"
    /\ rt_i <= Len(rt_request)
    /\ LET entry == rt_request[rt_i]
           saved == save_temp_image(temp_files, rt_i, entry = "base64_valid")
       IN  IF entry \in {"base64_valid", "base64_invalid"}
           THEN /\ temp_files' = saved.temp_files
                /\ rt_created' = rt_created \cup {rt_i}
                /\ IF saved.raised = 0
                   THEN /\ rt_image_paths' =
                             Append(rt_image_paths, TempPath(rt_i))
                        /\ rt_i' = rt_i + 1
                        /\ UNCHANGED <<rt_pc, rt_status, rt_events>>
                   ELSE /\ RtRaise(saved.raised)
                        /\ rt_pc' = "responded"
                        /\ UNCHANGED <<rt_image_paths, rt_i>>
           ELSE IF entry \in {"url_only", "neither"}
           THEN /\ RtRaise(400)
                /\ rt_pc' = "responded"
                /\ UNCHANGED <<rt_image_paths, rt_i, temp_files, rt_created>>
           ELSE /\ rt_image_paths' =
                     IF entry = "test_image"
                     THEN Append(rt_image_paths, TestImagePath(rt_i))
                     ELSE rt_image_paths
                /\ rt_i' = rt_i + 1
                /\ UNCHANGED <<rt_pc, rt_status, rt_events, temp_files,
                               rt_created>>
    /\ UNCHANGED <<rt_endpoint, rt_request, rt_tmpdir, background_tasks,
                   rt_tool, wfVars, bpVars,
                   extVars>>

\* After the loop: "if not image_paths" in the batch handlers; the stream
\* handler yields its started event.
RtCheckImages ==
    /\ rt_pc = "prepare"
    /\ rt_i > Len(rt_request)
    /\ IF rt_endpoint \in BatchEndpoints /\ rt_image_paths = <<>>
       THEN /\ rt_pc' = "responded"
            /\ IF rt_endpoint = "process_batch_stream"
               THEN /\ rt_events' = Append(rt_events, NoImagesEvent)
                    /\ rt_status' = 200
               ELSE RtRaise(400)
       ELSE /\ rt_pc' = "call"
            /\ rt_events' =
                 IF rt_endpoint = "process_batch_stream"
                 THEN Append(rt_events,
                             [status |-> "started",
                              total_images |-> Len(rt_image_paths)])
                 ELSE rt_events
            /\ UNCHANGED rt_status
    /\ UNCHANGED <<rt_endpoint, rt_request, rt_tmpdir, rt_i, rt_image_paths,
                   temp_files, rt_created, background_tasks, rt_tool,
                   wfVars, bpVars,
                   extVars>>

\* The MCP client scope (or the orchestrator call) of the four
\* request/response handlers.
RtCall ==
    /\ rt_pc = "call"
    /\ rt_endpoint # "process_batch_stream"
    /\ \E o \in CallOutcomes(rt_endpoint) :
         /\ rt_tool' = o
         /\ IF o = "raised"
            THEN /\ RtRaise(500)
                 /\ rt_pc' = "responded"
            ELSE /\ rt_pc' = "cleanup"
                 /\ UNCHANGED <<rt_status, rt_events>>
    /\ UNCHANGED <<rt_endpoint, rt_request, rt_tmpdir, rt_i, rt_image_paths,
                   temp_files, rt_created, background_tasks, wfVars, bpVars,
                   extVars>>

\* One chunk of client.process_batch_stream is relayed.
RtRelayChunk ==
    /\ rt_pc = "call"
    /\ rt_endpoint = "process_batch_stream"
    /\ LET relayed == Cardinality({k \in DOMAIN rt_events :
                                      rt_events[k].status = "chunk"})
       IN  /\ relayed < MaxChunks
           /\ rt_events' = Append(rt_events,
                                  [status |-> "chunk", seq |-> relayed + 1])
    /\ UNCHANGED <<rt_endpoint, rt_request, rt_tmpdir, rt_pc, rt_i,
                   rt_image_paths, temp_files, rt_created, background_tasks,
                   rt_tool, rt_status, wfVars, bpVars,
                   extVars>>

\* The stream of chunks ends, or the client scope raises.
RtStreamEnd ==
    /\ rt_pc = "call"
    /\ rt_endpoint = "process_batch_stream"
    /\ \E o \in {"ok", "raised"} :
         /\ rt_tool' = o
         /\ IF o = "raised"
            THEN /\ RtRaise(500)
                 /\ rt_pc' = "responded"
            ELSE /\ rt_pc' = "cleanup"
                 /\ UNCHANGED <<rt_status, rt_events>>
    /\ UNCHANGED <<rt_endpoint, rt_request, rt_tmpdir, rt_i, rt_image_paths,
                   temp_files, rt_created, background_tasks, wfVars, bpVars,
                   extVars>>

\* "Clean up temp file(s)" after the call; the workflow handler adds
\* cleanup_temp_files to the background tasks instead.
RtCleanup ==
    /\ rt_pc = "cleanup"
    /\ rt_pc' = "respond"
    /\ IF rt_endpoint \in SingleImageEndpoints
       THEN /\ temp_files' = unlink_image_path(temp_files, rt_image_paths)
            /\ UNCHANGED background_tasks
       ELSE IF rt_endpoint = "workflow"
       THEN /\ background_tasks' =
                 [scheduled |-> TRUE,
                  paths |-> TmpPaths(rt_image_paths, rt_tmpdir)]
            /\ UNCHANGED temp_files
       ELSE /\ temp_files' =
                 unlink_tmp_paths(temp_files, rt_image_paths, rt_tmpdir)
            /\ UNCHANGED background_tasks
    /\ UNCHANGED <<rt_endpoint, rt_request, rt_tmpdir, rt_i, rt_image_paths,
                   rt_created, rt_tool, rt_status, rt_events, wfVars, bpVars,
                   extVars>>

\* The success or error envelope is returned; the stream yields completed.
RtRespond ==
    /\ rt_pc = "respond"
    /\ rt_pc' = "responded"
    /\ rt_status' = 200
    /\ rt_events' = IF rt_endpoint = "process_batch_stream"
                    THEN Append(rt_events, Event("completed"))
                    ELSE rt_events
    /\ UNCHANGED <<rt_endpoint, rt_request, rt_tmpdir, rt_i, rt_image_paths,
                   temp_files, rt_created, background_tasks, rt_tool,
                   wfVars, bpVars,
                   extVars>>

\* cleanup_temp_files runs after the response was sent.
cleanup_temp_files ==
    /\ rt_pc = "responded"
    /\ background_tasks.scheduled
    /\ temp_files' = temp_files \ background_tasks.paths
    /\ rt_pc' = "done"
    /\ UNCHANGED <<rt_endpoint, rt_request, rt_tmpdir, rt_i, rt_image_paths,
                   rt_created, background_tasks, rt_tool, rt_status,
                   rt_events, wfVars, bpVars,
                   extVars>>

RouterNext ==
    \/ RtPrepareImage \/ RtCheckImages \/ RtCall \/ RtRelayChunk
    \/ RtStreamEnd \/ RtCleanup \/ RtRespond \/ cleanup_temp_files

RouterSpec == RouterInit /\ [][RouterNext]_vars

\* ------------------------------------- mcp-server/tools/batch_processor.py
MaxBatch == 2

\* Scores are in thousandths (0.9 is 900).
RoundDiv(a, b) ==
    LET q == a \div b
        r == a % b
    IN  IF 2 * r > b \/ (2 * r = b /\ q % 2 = 1) THEN q + 1 ELSE q

\* What PhotoClassifierTool.classify returns for path i: a result map, or
\* its {error, image_path} map; "raised" is an exception that gather hands
\* back in place of a result.
ClassifyOutcomes(i) ==
    {[kind |-> "ok", image_path |-> i,
      classification |-> [category |-> c.category, relevance |-> c.relevance,
                          confidence |-> 900]] :
        c \in {[category |-> "equipment_photo", relevance |-> "high"],
               [category |-> "other", relevance |-> "low"]}}
    \cup {[kind |-> "error", image_path |-> i], [kind |-> "raised"]}

_get_quality_grade(quality_score) ==
    IF quality_score >= 800 THEN "excellent"
    ELSE IF quality_score >= 600 THEN "good"
    ELSE IF quality_score >= 400 THEN "fair"
    ELSE "poor"

\* What QualityAnalyzerTool.analyze returns for path i.
AnalyzeOutcomesFor(i) ==
    {[kind |-> "ok", image_path |-> i, quality_score |-> s,
      quality_grade |-> _get_quality_grade(s),
      passes_threshold |-> (s >= 700)] : s \in {800, 300}}
    \cup {[kind |-> "error", image_path |-> i], [kind |-> "raised"]}

Pending == [kind |-> "pending"]

\* Mutant: results are listed in the order the tasks completed.
gather_in_completion_order(outcomes, completed) ==
    [k \in 1..Len(completed) |-> outcomes[completed[k]]]

\* asyncio.gather(*tasks, return_exceptions=True): the list of outcomes in
\* the order of the tasks passed in, whatever order they completed in.
gather(outcomes, completed) ==
    [k \in 1..Len(completed) |-> outcomes[k]]

\* x if not isinstance(x, Exception) else {"error": str(x)}
WrapException(x) == IF x.kind = "raised" THEN [kind |-> "error"] ELSE x

HasError(r) == r.kind = "error"

\* Mutant: an unrecognized relevance weighs as much as "high".
relevance_weight_unknown_high(relevance) ==
    IF relevance = "low" THEN 3
    ELSE IF relevance = "medium" THEN 7
    ELSE 10

relevance_weight(relevance) ==
    IF relevance = "high" THEN 10
    ELSE IF relevance = "low" THEN 3
    ELSE 7

\* dict.get(key, default)
Get(d, key, default) == IF key \in DOMAIN d THEN d[key] ELSE default

_calculate_combined_score(classification, quality) ==
    IF HasError(classification) \/ HasError(quality) THEN 0
    ELSE LET inner == Get(classification, "classification", <<>>)
             confidence == Get(inner, "confidence", 500)
             quality_score == Get(quality, "quality_score", 500)
             relevance == Get(inner, "relevance", "medium")
             relevance_multiplier == relevance_weight(relevance)
         IN  RoundDiv((confidence * 4 + quality_score * 6)
                          * relevance_multiplier, 100)

PassesThreshold(quality) ==
    IF HasError(quality) THEN FALSE ELSE quality.passes_threshold

\* r["classification"]["classification"] raises KeyError on an {error} map.
_get_batch_recommendations(results) ==
    IF \E i \in DOMAIN results : HasError(results[i].classification)
    THEN [raised |-> TRUE, value |-> {}]
    ELSE [raised |-> FALSE,
          value |->
            (IF \E i \in DOMAIN results :
                    ~PassesThreshold(results[i].quality_analysis)
             THEN {"retake"} ELSE {})
            \cup (IF \E i \in DOMAIN results :
                    results[i].classification.classification.relevance = "low"
                  THEN {"low_relevance"} ELSE {})
            \cup (IF \E i \in DOMAIN results :
                    results[i].classification.classification.category = "other"
                  THEN {"uncategorized"} ELSE {})]

RECURSIVE SumScores(_, _)
SumScores(results, k) ==
    IF k = 0 THEN 0 ELSE results[k].combined_score + SumScores(results, k - 1)

_generate_batch_summary(results) ==
    LET total == Len(results)
        recommendations == _get_batch_recommendations(results)
    IN  IF total = 0 THEN [raised |-> FALSE, total |-> 0]
        ELSE IF recommendations.raised THEN [raised |-> TRUE, total |-> total]
        ELSE [raised |-> FALSE,
              total |-> total,
              successful |-> Cardinality({i \in DOMAIN results :
                                 /\ ~HasError(results[i].classification)
                                 /\ ~HasError(results[i].quality_analysis)}),
              quality_passes |-> Cardinality({i \in DOMAIN results :
                                 PassesThreshold(results[i].quality_analysis)}),
              other |-> Cardinality({i \in DOMAIN results :
                          results[i].classification.classification.category
                              = "other"}),
              average_combined_score |->
                  RoundDiv(SumScores(results, total), total),
              recommendations |-> recommendations.value]

\* The except clause of process
BatchError(n) == [kind |-> "error", image_paths |-> n]

\* Lines 34-61 of process on the two gathered lists
process_results(n, cls, quals) ==
    LET results ==
            [i \in 1..n |->
                LET classification == WrapException(cls[i])
                    quality == WrapException(quals[i])
                IN  [image_path |-> i,
                     classification |-> classification,
                     quality_analysis |-> quality,
                     combined_score |->
                         _calculate_combined_score(classification, quality)]]
        summary == _generate_batch_summary(results)
    IN  IF summary.raised THEN BatchError(n)
        ELSE [kind |-> "batch",
              total_images |-> n,
              processed_images |-> Len(results),
              results |-> results,
              summary |-> summary]

BatchInit ==
    /\ bp_paths \in 0..MaxBatch
    /\ bp_pc = "validate"
    /\ bp_classifications = [i \in 1..bp_paths |-> Pending]
    /\ bp_quality_analyses = [i \in 1..bp_paths |-> Pending]
    /\ bp_completed = [classify |-> <<>>, quality |-> <<>>]
    /\ bp_result = [kind |-> "none"]
    /\ WorkflowIdle
    /\ RouterIdle
    /\ ExtIdle

\* validate_batch_images: every path is valid, or ValidationError is raised
\* and process returns its error map.
BpValidate ==
    /\ bp_pc = "validate"
    /\ \E valid \in (IF bp_paths = 0 THEN {TRUE} ELSE BOOLEAN) :
         IF valid
         THEN /\ bp_pc' = IF bp_paths = 0 THEN "assemble" ELSE "classify"
              /\ UNCHANGED bp_result
         ELSE /\ bp_pc' = "done"
              /\ bp_result' = BatchError(bp_paths)
    /\ UNCHANGED <<bp_paths, bp_classifications, bp_quality_analyses,
                   bp_completed, wfVars, rtVars,
                   extVars>>

\* One classification task of the first gather completes.
BpClassifyDone ==
    /\ bp_pc = "classify"
    /\ \E i \in {j \in 1..bp_paths : bp_classifications[j] = Pending} :
         /\ \E o \in ClassifyOutcomes(i) :
              bp_classifications' = [bp_classifications EXCEPT ![i] = o]
         /\ bp_completed' =
              [bp_completed EXCEPT !.classify = Append(@, i)]
         /\ bp_pc' = IF Len(bp_completed.classify) + 1 = bp_paths
                     THEN "quality" ELSE "classify"
    /\ UNCHANGED <<bp_paths, bp_quality_analyses, bp_result, wfVars, rtVars,
                   extVars>>

\* One quality task of the second gather completes.
BpQualityDone ==
    /\ bp_pc = "quality"
    /\ \E i \in {j \in 1..bp_paths : bp_quality_analyses[j] = Pending} :
         /\ \E o \in AnalyzeOutcomesFor(i) :
              bp_quality_analyses' = [bp_quality_analyses EXCEPT ![i] = o]
         /\ bp_completed' =
              [bp_completed EXCEPT !.quality = Append(@, i)]
         /\ bp_pc' = IF Len(bp_completed.quality) + 1 = bp_paths
                     THEN "assemble" ELSE "quality"
    /\ UNCHANGED <<bp_paths, bp_classifications, bp_result, wfVars, rtVars,
                   extVars>>

\* Both gathers have returned: results, summary and the returned map.
BpReturn ==
    /\ bp_pc = "assemble"
    /\ bp_result' =
         process_results(bp_paths,
                         gather(bp_classifications, bp_completed.classify),
                         gather(bp_quality_analyses, bp_completed.quality))
    /\ bp_pc' = "done"
    /\ UNCHANGED <<bp_paths, bp_classifications, bp_quality_analyses,
                   bp_completed, wfVars, rtVars,
                   extVars>>

BatchNext == BpValidate \/ BpClassifyDone \/ BpQualityDone \/ BpReturn

BatchSpec == BatchInit /\ [][BatchNext]_vars

\* -------------------------------------- mcp-server/utils/validation.py
MaxValidatePaths == 4

PathNames == {"a.jpg", "b.jpg", "c.jpg"}

\* validate_batch_images' loop over file_paths[k..]: a path is appended to
\* validated_paths when validate_image_file accepts it (it is in valid),
\* to errors otherwise.
RECURSIVE ValidateLoop(_, _, _, _, _)
ValidateLoop(file_paths, valid, k, validated_paths, errors) ==
    IF k > Len(file_paths) THEN [validated_paths |-> validated_paths,
                                 errors |-> errors]
    ELSE IF file_paths[k] \in valid
    THEN ValidateLoop(file_paths, valid, k + 1,
                      Append(validated_paths, file_paths[k]), errors)
    ELSE ValidateLoop(file_paths, valid, k + 1,
                      validated_paths, Append(errors, file_paths[k]))

\* Mutant: the paths that validated are returned although some failed.
validate_batch_images_partial(file_paths, valid) ==
    [kind |-> "returned",
     value |-> ValidateLoop(file_paths, valid, 1, <<>>, <<>>).validated_paths]

\* The message of the ValidationError joins one "<path>: <reason>" per
\* failing path; it is kept as the sequence of the paths it names.
validate_batch_images(file_paths, valid) ==
    LET loop == ValidateLoop(file_paths, valid, 1, <<>>, <<>>)
    IN  IF loop.errors # <<>>
        THEN [kind |-> "raised", exception |-> "ValidationError",
              message |-> loop.errors]
        ELSE [kind |-> "returned", value |-> loop.validated_paths]

\* call_args = <<file_paths, the paths validate_image_file accepts>>
ValidationInit ==
    /\ call_fn = "validate_batch_images"
    /\ \E n \in 0..MaxValidatePaths :
         \E file_paths \in SeqsOf(PathNames, n), valid \in SUBSET PathNames :
            call_args = <<file_paths, valid>>
    /\ call_result = NotCalled
    /\ WorkflowIdle
    /\ RouterIdle
    /\ BatchIdle
    /\ ServerIdle
    /\ StreamIdle
    /\ ConcurrentIdle
    /\ ClientIdle

CallValidateBatchImages ==
    /\ call_fn = "validate_batch_images"
    /\ call_result = NotCalled
    /\ call_result' = validate_batch_images(call_args[1], call_args[2])
    /\ UNCHANGED <<call_fn, call_args, wfVars, rtVars, bpVars, srvVars,
                   stream_events, ccVars, mcVars>>

ValidationNext == CallValidateBatchImages

ValidationSpec == ValidationInit /\ [][ValidationNext]_vars

\* ------------------------------------------ mcp-server/mcp/photo_server.py
MaxServerPaths == 2

ToolNames == {"classify_photo", "analyze_quality", "process_batch",
              "generate_feedback"}
RequestNames == ToolNames \cup {"resize_photo"}

\* The tool method call_tool invokes for a name.
ToolFor(name) ==
    IF name = "classify_photo" THEN "photo_classifier.classify"
    ELSE IF name = "analyze_quality" THEN "quality_analyzer.analyze"
    ELSE IF name = "process_batch" THEN "batch_processor.process"
    ELSE "feedback_generator.generate"

\* A tool returns its result map or its own {error} map, or raises.
ToolOutcomes == {"result", "error", "raised"}

ErrorMap(message) == [kind |-> "error", tool |-> "none", message |-> message]

\* Mutant: no try around the dispatch; exceptions leave call_tool.
call_tool_unguarded(name, arguments, outcome) ==
    IF name \notin ToolNames THEN [kind |-> "raised", tool |-> "none",
                                   message |-> "Unknown tool"]
    ELSE IF ~arguments.required THEN [kind |-> "raised", tool |-> "none",
                                      message |-> "KeyError"]
    ELSE [kind |-> outcome, tool |-> ToolFor(name), message |-> "tool"]

\* call_tool: arguments.required says the keys read with arguments[...]
\* are present; outcome is what the invoked tool does.
call_tool(name, arguments, outcome) ==
    IF name \notin ToolNames THEN ErrorMap("Unknown tool")
    ELSE IF ~arguments.required THEN ErrorMap("KeyError")
    ELSE IF outcome = "raised" THEN ErrorMap("tool exception")
    ELSE [kind |-> outcome, tool |-> ToolFor(name), message |-> "tool"]

ServerInit ==
    /\ srv_mode \in {"call", "stream"}
    /\ srv_name \in RequestNames
    /\ srv_arguments \in
         [required : BOOLEAN,
          image_paths : IF srv_name = "process_batch"
                        THEN 0..MaxServerPaths ELSE {0}]
    /\ srv_pc = IF srv_mode = "stream" THEN "start" ELSE "execute"
    /\ srv_result = [kind |-> "none"]
    /\ srv_events = <<>>
    /\ WorkflowIdle
    /\ RouterIdle
    /\ BatchIdle
    /\ CallIdle
    /\ StreamIdle
    /\ ConcurrentIdle
    /\ ClientIdle

SrvEvent(status) == [status |-> status]

\* The started event; process_batch continues with its progress event.
SrvStarted ==
    /\ srv_pc = "start"
    /\ srv_events' = Append(srv_events, SrvEvent("started"))
    /\ srv_pc' = IF srv_name = "process_batch" THEN "progress" ELSE "execute"
    /\ UNCHANGED <<srv_mode, srv_name, srv_arguments, srv_result,
                   wfVars, rtVars, bpVars, callVars,
                   stream_events, ccVars, mcVars>>

\* arguments.get("image_paths", []) and the progress event with its count.
SrvProgress ==
    /\ srv_pc = "progress"
    /\ srv_events' = Append(srv_events,
                            [status |-> "progress",
                             total |-> IF srv_arguments.required
                                       THEN srv_arguments.image_paths ELSE 0])
    /\ srv_pc' = "execute"
    /\ UNCHANGED <<srv_mode, srv_name, srv_arguments, srv_result,
                   wfVars, rtVars, bpVars, callVars,
                   stream_events, ccVars, mcVars>>

\* result = await self.call_tool(name, arguments); in stream mode an
\* exception out of it would reach stream_tool_execution's except clause.
SrvCallTool ==
    /\ srv_pc = "execute"
    /\ \E outcome \in ToolOutcomes :
         LET r == call_tool(srv_name, srv_arguments, outcome)
         IN  /\ srv_result' = r
             /\ IF srv_mode = "stream" /\ r.kind = "raised"
                THEN /\ srv_events' = Append(srv_events, SrvEvent("error"))
                     /\ srv_pc' = "done"
                ELSE /\ srv_pc' = IF srv_mode = "stream"
                                  THEN "result" ELSE "done"
                     /\ UNCHANGED srv_events
    /\ UNCHANGED <<srv_mode, srv_name, srv_arguments,
                   wfVars, rtVars, bpVars, callVars,
                   stream_events, ccVars, mcVars>>

\* The result event. json.dumps raises on a result map that holds values
\* JSON cannot encode (EXIF metadata of a classified image); the except
\* clause then yields the error event.
SrvResult ==
    /\ srv_pc = "result"
    /\ \E encodable \in (IF srv_result.kind = "result"
                         THEN BOOLEAN ELSE {TRUE}) :
         IF encodable
         THEN /\ srv_events' = Append(srv_events,
                                      [status |-> "result",
                                       data |-> srv_result])
              /\ srv_pc' = "complete"
         ELSE /\ srv_events' = Append(srv_events, SrvEvent("error"))
              /\ srv_pc' = "done"
    /\ UNCHANGED <<srv_mode, srv_name, srv_arguments, srv_result,
                   wfVars, rtVars, bpVars, callVars,
                   stream_events, ccVars, mcVars>>

SrvCompleted ==
    /\ srv_pc = "complete"
    /\ srv_events' = Append(srv_events, SrvEvent("completed"))
    /\ srv_pc' = "done"
    /\ UNCHANGED <<srv_mode, srv_name, srv_arguments, srv_result,
                   wfVars, rtVars, bpVars, callVars,
                   stream_events, ccVars, mcVars>>

ServerNext ==
    SrvStarted \/ SrvProgress \/ SrvCallTool \/ SrvResult \/ SrvCompleted

ServerSpec == ServerInit /\ [][ServerNext]_vars

\* ------------- services/triage_agent.py: run_triage_workflow_stream
StepEvent(status, step) == [status |-> status, step |-> step]

ErrorEvent == [status |-> "error", step |-> "none", success |-> FALSE]

\* The final yield reads final_state["classification_results"]; a state
\* without that key raises KeyError, which the except clause reports.
FinalEvent(st) ==
    IF "classification_results" \in DOMAIN st
    THEN [status |-> "result", step |-> "none", success |-> TRUE,
          attempts_made |-> st.current_attempt]
    ELSE ErrorEvent

StreamInit ==
    /\ settings \in [reflection_enabled : BOOLEAN,
                     max_retry_attempts : 1..MaxRetrySetting]
    /\ variant = "composed"
    /\ enable_retry \in BOOLEAN
    /\ \E n \in 0..MaxImages :
         state = create_initial_state(n, MaxAttemptsFor(enable_retry, settings))
    /\ pc = "stream_start"
    /\ client_closed = FALSE
    /\ analyze_runs = 0
    /\ last_node = "START"
    /\ last_route = ""
    /\ result = NoResult
    /\ stream_events = <<>>
    /\ RouterIdle
    /\ BatchIdle
    /\ CallIdle
    /\ ServerIdle
    /\ ConcurrentIdle
    /\ ClientIdle

StreamUnchanged ==
    UNCHANGED <<settings, variant, enable_retry, client_closed, last_node,
                result, rtVars, bpVars, callVars, srvVars,
                ccVars, mcVars>>

StreamStarted ==
    /\ pc = "stream_start"
    /\ stream_events' = Append(stream_events, StepEvent("started", "initialize"))
    /\ pc' = "stream_analysis"
    /\ UNCHANGED <<state, analyze_runs, last_route>>
    /\ StreamUnchanged

StreamAnalysis ==
    /\ pc = "stream_analysis"
    /\ \E o \in AnalyzeOutcomes(state.image_paths) :
         state' = analyze_photos(state, o)
    /\ analyze_runs' = analyze_runs + 1
    /\ stream_events' = stream_events
           \o <<StepEvent("processing", "quality_analysis"),
                StepEvent("step_completed", "quality_analysis")>>
    /\ pc' = "stream_classification"
    /\ UNCHANGED last_route
    /\ StreamUnchanged

\* Classification, then reflection_needed = should_reflect(current_state)
StreamClassification ==
    /\ pc = "stream_classification"
    /\ \E cats \in SeqsOf(Categories, state.image_paths) :
         LET st == classify_photos_with_llm(state, cats)
         IN  /\ state' = st
             /\ last_route' = should_reflect(st)
             /\ pc' = IF should_reflect(st) = "reflect"
                      THEN "stream_reflection" ELSE "stream_feedback"
    /\ stream_events' = stream_events
           \o <<StepEvent("processing", "classification"),
                StepEvent("step_completed", "classification")>>
    /\ UNCHANGED analyze_runs
    /\ StreamUnchanged

\* Reflection, then retry_needed = should_retry(current_state)
StreamReflection ==
    /\ pc = "stream_reflection"
    /\ LET st == reflect_on_results(state)
       IN  /\ state' = st
           /\ last_route' = should_retry(st)
           /\ pc' = IF /\ should_retry(st) = "retry"
                       /\ st.current_attempt < st.max_attempts
                    THEN "stream_retry" ELSE "stream_feedback"
    /\ stream_events' = stream_events
           \o <<StepEvent("processing", "reflection"),
                StepEvent("step_completed", "reflection")>>
    /\ UNCHANGED analyze_runs
    /\ StreamUnchanged

StreamPrepareRetry ==
    /\ pc = "stream_retry"
    /\ state' = prepare_retry(state)
    /\ stream_events' =
         Append(stream_events, StepEvent("processing", "retry_preparation"))
    /\ pc' = "stream_retry_analysis"
    /\ UNCHANGED <<analyze_runs, last_route>>
    /\ StreamUnchanged

\* Mutant: after the second pass the reflection is consulted again.
StreamRetryAnalysis_loops ==
    /\ pc = "stream_retry_analysis"
    /\ \E o \in AnalyzeOutcomes(state.image_paths),
          cats \in SeqsOf(Categories, state.image_paths) :
         LET st == classify_photos_with_llm(analyze_photos(state, o), cats)
         IN  /\ state' = st
             /\ pc' = IF should_reflect(st) = "reflect"
                      THEN "stream_reflection" ELSE "stream_feedback"
    /\ analyze_runs' = analyze_runs + 1
    /\ stream_events' = stream_events
           \o <<StepEvent("processing", "retry_analysis"),
                StepEvent("step_completed", "retry_analysis")>>
    /\ UNCHANGED last_route
    /\ StreamUnchanged

\* The second pass: analyze_photos and classify_photos_with_llm once more
StreamRetryAnalysis ==
    /\ pc = "stream_retry_analysis"
    /\ \E o \in AnalyzeOutcomes(state.image_paths),
          cats \in SeqsOf(Categories, state.image_paths) :
         state' = classify_photos_with_llm(analyze_photos(state, o), cats)
    /\ analyze_runs' = analyze_runs + 1
    /\ stream_events' = stream_events
           \o <<StepEvent("processing", "retry_analysis"),
                StepEvent("step_completed", "retry_analysis")>>
    /\ pc' = "stream_feedback"
    /\ UNCHANGED last_route
    /\ StreamUnchanged

StreamFeedback ==
    /\ pc = "stream_feedback"
    /\ \E mcp_ok \in BOOLEAN, llm \in LLMFeedbackKinds :
         state' = generate_final_feedback(state, mcp_ok, llm)
    /\ stream_events' = stream_events
           \o <<StepEvent("processing", "feedback"),
                StepEvent("step_completed", "feedback")>>
    /\ pc' = "stream_result"
    /\ UNCHANGED <<analyze_runs, last_route>>
    /\ StreamUnchanged

StreamFinal ==
    /\ pc = "stream_result"
    /\ stream_events' = Append(stream_events, FinalEvent(state))
    /\ pc' = "stream_done"
    /\ UNCHANGED <<state, analyze_runs, last_route>>
    /\ StreamUnchanged

StreamNext ==
    \/ StreamStarted \/ StreamAnalysis \/ StreamClassification
    \/ StreamReflection \/ StreamPrepareRetry \/ StreamRetryAnalysis
    \/ StreamFeedback \/ StreamFinal

StreamSpec == StreamInit /\ [][StreamNext]_vars

\* ----------------------------------------- agent-server/llm/services.py
\* The taxonomy of photo categories, in the order the classifier lists it.
PhotoCategories ==
    <<"equipment_photo", "before_work", "during_work", "after_work",
      "damage_assessment", "safety_documentation", "material_inventory",
      "environmental_conditions", "other">>

Elements(s) == {s[k] : k \in DOMAIN s}

\* Values of the categories argument: the classifier's full list and a
\* shorter list. Both hold "other", the value every coercion and fallback
\* of classify_photo produces.
Taxonomies == {PhotoCategories, <<"before_work", "after_work", "other">>}

Absent == "<absent>"

\* What the vision model call does: it raises, or message.content is text
\* that is not JSON, JSON that is no object, or a JSON object whose
\* category key is absent, inside or outside the taxonomy.
LLMReplies ==
    {[kind |-> "raised"], [kind |-> "not_json"], [kind |-> "json_non_object"]}
    \cup {[kind |-> "json", category |-> c, confidence |-> f] :
            c \in {Absent, "before_work", "equipment_photo", "sunset"},
            f \in {900, 300}}

_fallback_classification ==
    [category |-> "other", confidence |-> 500,
     description |-> "Classification unavailable",
     relevance |-> "medium", quality_flags |-> <<>>]

\* Mutant: the model's category is passed through as it came.
classify_photo_uncoerced(has_client, reply, categories) ==
    IF ~has_client \/ reply.kind \in {"raised", "json_non_object"}
    THEN [kind |-> "returned", value |-> _fallback_classification]
    ELSE IF reply.kind = "not_json"
    THEN [kind |-> "returned",
          value |-> [category |-> "other", confidence |-> 500,
                     description |-> "content", relevance |-> "medium",
                     quality_flags |-> <<>>]]
    ELSE [kind |-> "returned",
          value |-> [category |-> reply.category,
                     confidence |-> reply.confidence,
                     description |-> "model", relevance |-> "high",
                     quality_flags |-> <<>>]]

\* LLMService.classify_photo. A JSON value that is no object makes the
\* category test or the assignment raise TypeError inside the outer try.
classify_photo(has_client, reply, categories) ==
    IF ~has_client
    THEN [kind |-> "returned", value |-> _fallback_classification]
    ELSE IF reply.kind \in {"raised", "json_non_object"}
    THEN [kind |-> "returned", value |-> _fallback_classification]
    ELSE IF reply.kind = "not_json"
    THEN [kind |-> "returned",
          value |-> [category |-> "other", confidence |-> 500,
                     description |-> "content", relevance |-> "medium",
                     quality_flags |-> <<>>]]
    ELSE [kind |-> "returned",
          value |-> [category |->
                         IF \/ reply.category = Absent
                            \/ reply.category \notin Elements(categories)
                         THEN "other" ELSE reply.category,
                     confidence |-> reply.confidence,
                     description |-> "model", relevance |-> "high",
                     quality_flags |-> <<>>]]

\* call_args = [has_client, reply, categories, job_context]
LLMInit ==
    /\ call_fn = "LLMService.classify_photo"
    /\ call_args \in [has_client : BOOLEAN, reply : LLMReplies,
                      categories : Taxonomies,
                      job_context : {"None", "roof repair"}]
    /\ call_result = NotCalled
    /\ WorkflowIdle
    /\ RouterIdle
    /\ BatchIdle
    /\ ServerIdle
    /\ StreamIdle
    /\ ConcurrentIdle
    /\ ClientIdle

CallClassifyPhoto ==
    /\ call_fn = "LLMService.classify_photo"
    /\ call_result = NotCalled
    /\ call_result' = classify_photo(call_args.has_client, call_args.reply,
                                     call_args.categories)
    /\ UNCHANGED <<call_fn, call_args, wfVars, rtVars, bpVars, srvVars,
                   stream_events, ccVars, mcVars>>

LLMNext == CallClassifyPhoto

LLMSpec == LLMInit /\ [][LLMNext]_vars

\* ------------------------------- mcp-server/tools/photo_classifier.py
\* _classify_with_vision_model: ModelError without a client or when the
\* call or the handling of its reply raises; a reply that is not JSON gives
\* other/0.5/medium; a JSON object has its category coerced into the
\* taxonomy.
_classify_with_vision_model(has_client, reply) ==
    IF ~has_client THEN [raised |-> TRUE, called |-> FALSE]
    ELSE IF reply.kind \in {"raised", "json_non_object"}
    THEN [raised |-> TRUE, called |-> TRUE]
    ELSE IF reply.kind = "not_json"
    THEN [raised |-> FALSE, called |-> TRUE,
          value |-> [category |-> "other", confidence |-> 500]]
    ELSE [raised |-> FALSE, called |-> TRUE,
          value |-> [category |->
                         IF \/ reply.category = Absent
                            \/ reply.category \notin Elements(PhotoCategories)
                         THEN "other" ELSE reply.category,
                     confidence |-> reply.confidence]]

\* PhotoClassifierTool.classify on an image that validate_image_file
\* accepts (valid) or rejects.
classify(image_path, job_context, valid, has_client, reply) ==
    LET classification == _classify_with_vision_model(has_client, reply)
    IN  IF ~valid
        THEN [kind |-> "returned", model_called |-> FALSE,
              value |-> [error |-> "ValidationError",
                         image_path |-> image_path]]
        ELSE IF classification.raised
        THEN [kind |-> "returned", model_called |-> classification.called,
              value |-> [error |-> "ModelError", image_path |-> image_path]]
        ELSE [kind |-> "returned", model_called |-> TRUE,
              value |-> [image_path |-> image_path,
                         classification |-> classification.value,
                         metadata |-> "metadata",
                         confidence_score |-> classification.value.confidence,
                         job_context |-> job_context]]

\* call_args = [image_path, job_context, valid, has_client, reply]
ClassifierInit ==
    /\ call_fn = "PhotoClassifierTool.classify"
    /\ call_args \in [image_path : {"a.jpg", "b.png"},
                      job_context : {"None", "roof repair"},
                      valid : BOOLEAN, has_client : BOOLEAN,
                      reply : LLMReplies]
    /\ call_result = NotCalled
    /\ WorkflowIdle
    /\ RouterIdle
    /\ BatchIdle
    /\ ServerIdle
    /\ StreamIdle
    /\ ConcurrentIdle
    /\ ClientIdle

CallClassify ==
    /\ call_fn = "PhotoClassifierTool.classify"
    /\ call_result = NotCalled
    /\ call_result' = classify(call_args.image_path, call_args.job_context,
                               call_args.valid, call_args.has_client,
                               call_args.reply)
    /\ UNCHANGED <<call_fn, call_args, wfVars, rtVars, bpVars, srvVars,
                   stream_events, ccVars, mcVars>>

ClassifierNext == CallClassify

ClassifierSpec == ClassifierInit /\ [][ClassifierNext]_vars

\* ------------- two concurrent calls of TriageAgent.run_triage_workflow
\* The state map of a run holds references to its messages and
\* reflection_notes lists (the nodes append to them in place); every other
\* field is assigned and is kept by value.

\* Mutant: the lists of the state map are two objects shared by all calls.
NewStateLists_shared(heap) == [messages |-> 1, reflection_notes |-> 2]

\* create_initial_state evaluates two list displays: two new objects.
NewStateLists(heap) ==
    [messages |-> Len(heap) + 1, reflection_notes |-> Len(heap) + 2]

\* The list object at address a is (created and) set to v.
Install(heap, a, v) ==
    IF a > Len(heap) THEN Append(heap, v) ELSE [heap EXCEPT ![a] = v]

\* The state map with its lists read through the heap.
Deref(heap, st) ==
    [st EXCEPT !.messages = heap[st.messages],
               !.reflection_notes = heap[st.reflection_notes]]

\* What a run can see of itself: its state and, once returned, its result.
View(r) ==
    IF cc_runs[r].pc = "not_started" THEN NotStarted
    ELSE LET st == Deref(cc_heap, cc_runs[r].state)
         IN  [pc |-> cc_runs[r].pc, state |-> st,
              result |-> IF cc_runs[r].pc = "returned"
                         THEN WorkflowResult(st) ELSE NoResult]

ConcurrentInit ==
    /\ cc_runs = [r \in RunIds |-> NotStarted]
    /\ cc_heap = <<>>
    /\ cc_last = 0
    /\ settings \in [reflection_enabled : {TRUE},
                     max_retry_attempts : {2}]
    /\ variant = "composed"
    /\ enable_retry = TRUE
    /\ state = create_initial_state(0, MaxRetrySetting)
    /\ pc = "idle"
    /\ client_closed = FALSE
    /\ analyze_runs = 0
    /\ last_node = "START"
    /\ last_route = ""
    /\ result = NoResult
    /\ RouterIdle
    /\ BatchIdle
    /\ CallIdle
    /\ ServerIdle
    /\ StreamIdle
    /\ ClientIdle

ConcurrentUnchanged ==
    UNCHANGED <<wfVars, rtVars, bpVars, callVars, srvVars, stream_events,
                mcVars>>

\* run_triage_workflow is entered: max_attempts and the initial state
RunStart(r) ==
    /\ cc_runs[r].pc = "not_started"
    /\ \E retry \in BOOLEAN :
         LET lists == NewStateLists(cc_heap)
             init  == create_initial_state(1, MaxAttemptsFor(retry, settings))
         IN  /\ cc_heap' = Install(Install(cc_heap, lists.messages,
                                           init.messages),
                                   lists.reflection_notes,
                                   init.reflection_notes)
             /\ cc_runs' = [cc_runs EXCEPT ![r] =
                    [pc |-> "analyze",
                     state |-> [init EXCEPT
                                  !.messages = lists.messages,
                                  !.reflection_notes = lists.reflection_notes]]]
    /\ cc_last' = r
    /\ ConcurrentUnchanged

\* Run r executes graph node `node`, which turns its state into st.
RunStep(r, node, st) ==
    LET refs == cc_runs[r].state
    IN  /\ cc_heap' = [cc_heap EXCEPT ![refs.messages] = st.messages,
                                      ![refs.reflection_notes] =
                                          st.reflection_notes]
        /\ cc_runs' = [cc_runs EXCEPT ![r] =
               [pc |-> NextNode("composed", node, st),
                state |-> [st EXCEPT
                             !.messages = refs.messages,
                             !.reflection_notes = refs.reflection_notes]]]
        /\ cc_last' = r
        /\ ConcurrentUnchanged

RunAnalyze(r) ==
    /\ cc_runs[r].pc = "analyze"
    /\ LET st == Deref(cc_heap, cc_runs[r].state)
       IN  \E o \in AnalyzeOutcomes(st.image_paths) :
              RunStep(r, "analyze", analyze_photos(st, o))

RunClassify(r) ==
    /\ cc_runs[r].pc = "classify_with_llm"
    /\ LET st == Deref(cc_heap, cc_runs[r].state)
       IN  \E cats \in SeqsOf(Categories, st.image_paths) :
              RunStep(r, "classify_with_llm",
                      classify_photos_with_llm(st, cats))

RunReflect(r) ==
    /\ cc_runs[r].pc = "reflect"
    /\ RunStep(r, "reflect",
               reflect_on_results(Deref(cc_heap, cc_runs[r].state)))

RunRetry(r) ==
    /\ cc_runs[r].pc = "retry"
    /\ RunStep(r, "retry", prepare_retry(Deref(cc_heap, cc_runs[r].state)))

RunFeedback(r) ==
    /\ cc_runs[r].pc = "generate_feedback"
    /\ \E mcp_ok \in BOOLEAN, llm \in LLMFeedbackKinds :
         RunStep(r, "generate_feedback",
                 generate_final_feedback(Deref(cc_heap, cc_runs[r].state),
                                         mcp_ok, llm))

RunReturn(r) ==
    /\ cc_runs[r].pc = "END"
    /\ cc_runs' = [cc_runs EXCEPT ![r].pc = "returned"]
    /\ cc_last' = r
    /\ UNCHANGED cc_heap
    /\ ConcurrentUnchanged

ConcurrentNext ==
    \E r \in RunIds :
        \/ RunStart(r) \/ RunAnalyze(r) \/ RunClassify(r) \/ RunReflect(r)
        \/ RunRetry(r) \/ RunFeedback(r) \/ RunReturn(r)

ConcurrentSpec == ConcurrentInit /\ [][ConcurrentNext]_vars

\* ------------- BatchProcessorTool._calculate_combined_score as a call
Confidences == {900, 905, 0, 1000}
QualityScores == {800, 333, 0, 1000}
Relevances == {"high", "medium", "low", "critical"}

\* A classification result: the tool's error map, a map without the
\* "classification" key, or one whose inner map has or lacks "confidence"
\* and "relevance".
ScoreClassifications ==
    {[kind |-> "error"], [kind |-> "ok"]}
    \cup {[kind |-> "ok", classification |-> <<>>]}
    \cup {[kind |-> "ok", classification |-> [confidence |-> c]] :
             c \in Confidences}
    \cup {[kind |-> "ok", classification |-> [relevance |-> r]] :
             r \in Relevances}
    \cup {[kind |-> "ok",
           classification |-> [confidence |-> c, relevance |-> r]] :
             c \in Confidences, r \in Relevances}

ScoreQualities ==
    {[kind |-> "error"], [kind |-> "ok"]}
    \cup {[kind |-> "ok", quality_score |-> q] : q \in QualityScores}

ScoreInit ==
    /\ call_fn = "_calculate_combined_score"
    /\ call_args \in ScoreClassifications \X ScoreQualities
    /\ call_result = NotCalled
    /\ WorkflowIdle
    /\ RouterIdle
    /\ BatchIdle
    /\ ServerIdle
    /\ StreamIdle
    /\ ConcurrentIdle
    /\ ClientIdle

CallCalculateCombinedScore ==
    /\ call_fn = "_calculate_combined_score"
    /\ call_result = NotCalled
    /\ call_result' =
         [score |-> _calculate_combined_score(call_args[1], call_args[2])]
    /\ UNCHANGED <<call_fn, call_args, wfVars, rtVars, bpVars, srvVars,
                   stream_events, ccVars, mcVars>>

ScoreNext == CallCalculateCombinedScore

ScoreSpec == ScoreInit /\ [][ScoreNext]_vars

\* ------------- FeedbackGeneratorTool._determine_priority_level as a call
MaxPairs == 10

\* A quality analysis passes, fails, or has no "passes_threshold" key.
QualityAnalyses ==
    {[passes_threshold |-> TRUE], [passes_threshold |-> FALSE],
     [quality_score |-> 500]}

PriorityArgs ==
    {<<cs, qas>> :
        cs \in {<<>>, <<[category |-> "other"]>>},
        qas \in UNION {[1..n -> QualityAnalyses] : n \in 0..MaxPairs}}

RECURSIVE quality_fails(_)
quality_fails(quality_analyses) ==
    IF quality_analyses = <<>> THEN 0
    ELSE (IF ~ Get(Head(quality_analyses), "passes_threshold", FALSE)
          THEN 1 ELSE 0)
         + quality_fails(Tail(quality_analyses))

\* Mutant: the thresholds are inclusive.
_determine_priority_level_inclusive(classifications, quality_analyses) ==
    IF classifications = <<>> \/ quality_analyses = <<>> THEN "medium"
    ELSE LET fails == quality_fails(quality_analyses)
             total == Len(quality_analyses)
         IN  IF 10 * fails >= 5 * total THEN "high"
             ELSE IF 10 * fails >= 2 * total THEN "medium"
             ELSE "low"

\* fail_rate > 0.5 and fail_rate > 0.2, as comparisons of integers
_determine_priority_level(classifications, quality_analyses) ==
    IF classifications = <<>> \/ quality_analyses = <<>> THEN "medium"
    ELSE LET fails == quality_fails(quality_analyses)
             total == Len(quality_analyses)
         IN  IF 10 * fails > 5 * total THEN "high"
             ELSE IF 10 * fails > 2 * total THEN "medium"
             ELSE "low"

PriorityInit ==
    /\ call_fn = "_determine_priority_level"
    /\ call_args \in PriorityArgs
    /\ call_result = NotCalled
    /\ WorkflowIdle
    /\ RouterIdle
    /\ BatchIdle
    /\ ServerIdle
    /\ StreamIdle
    /\ ConcurrentIdle
    /\ ClientIdle

CallDeterminePriorityLevel ==
    /\ call_fn = "_determine_priority_level"
    /\ call_result = NotCalled
    /\ call_result' =
         [priority_level |->
             _determine_priority_level(call_args[1], call_args[2])]
    /\ UNCHANGED <<call_fn, call_args, wfVars, rtVars, bpVars, srvVars,
                   stream_events, ccVars, mcVars>>

PriorityNext == CallDeterminePriorityLevel

PrioritySpec == PriorityInit /\ [][PriorityNext]_vars

\* ------------- the composed graph on a run of several images
\* Runs of RetryImages images, in which the pass rate Reflect reads takes
\* values on both sides of 0.5. The classify_photo results of one Analyze
\* pass are alike: all carry image_data or none does.
RetryImages == 2
\* Largest settings.max_retry_attempts of these runs.
RetryAttempts == 2

RetryAnalyzeOutcomes(n) ==
    {o \in AnalyzeOutcomes(n) :
        o.ok => \E k \in {"data", "nodata"} :
                   \A i \in 1..n : o.photos[i] = k}

RetryInit ==
    /\ settings \in [reflection_enabled : BOOLEAN,
                     max_retry_attempts : 1..RetryAttempts]
    /\ variant = "composed"
    /\ enable_retry \in BOOLEAN
    /\ state = create_initial_state(RetryImages,
                                    MaxAttemptsFor(enable_retry, settings))
    /\ pc = "analyze"
    /\ client_closed = FALSE
    /\ analyze_runs = 0
    /\ last_node = "START"
    /\ last_route = ""
    /\ result = NoResult
    /\ RouterIdle
    /\ BatchIdle
    /\ ExtIdle

RetryAnalyze ==
    /\ pc = "analyze"
    /\ analyze_runs < MaxAnalyzeRuns
    /\ analyze_runs' = analyze_runs + 1
    /\ \E o \in RetryAnalyzeOutcomes(state.image_paths) :
         Step("analyze", analyze_photos(state, o))
    /\ UNCHANGED client_closed

RetryNext ==
    RetryAnalyze \/ Classify \/ Reflect \/ Retry \/ Feedback \/ Return

RetrySpec == RetryInit /\ [][RetryNext]_vars

\* ------------- MCPHttpClient: `async with MCPHttpClient() as client: ...`
\* Largest number of tool calls the body of one scope makes.
MaxScopeCalls == 3

\* The tools the agent calls through the client.
ClientTools == {"analyze_quality", "classify_photo", "generate_feedback"}

\* How the POST to /initialize ends: a JSON answer with or without
\* "sessionId" (the repository's server always sends "mcp-session-001"), or
\* an exception (transport failure, raise_for_status, invalid JSON).
InitializeOutcomes ==
    {[kind |-> "ok", response |-> [sessionId |-> "mcp-session-001"]],
     [kind |-> "ok", response |-> [protocolVersion |-> "2025-06-18"]],
     [kind |-> "raised"]}

InitializeRequest == [kind |-> "initialize", protocolVersion |-> "2025-06-18"]

\* Mutant: the payload never carries the session.
tool_payload_without_session(name, session_id) ==
    [kind |-> "tool", name |-> name]

\* call_tool's payload: sessionId is added when self.session_id is truthy.
tool_payload(name, session_id) ==
    IF session_id # "None"
    THEN [kind |-> "tool", name |-> name, sessionId |-> session_id]
    ELSE [kind |-> "tool", name |-> name]

ClientInit ==
    /\ mc_pc = "created"
    /\ mc_session_id = "None"
    /\ mc_closed = FALSE
    /\ mc_sent = <<>>
    /\ mc_init = [kind |-> "none"]
    /\ WorkflowIdle
    /\ RouterIdle
    /\ BatchIdle
    /\ CallIdle
    /\ ServerIdle
    /\ StreamIdle
    /\ ConcurrentIdle

ClientUnchanged ==
    UNCHANGED <<wfVars, rtVars, bpVars, callVars, srvVars, stream_events,
                ccVars>>

\* __aenter__: initialize; an exception leaves the statement without
\* entering the scope, and __aexit__ is not called.
McEnter ==
    /\ mc_pc = "created"
    /\ mc_sent' = Append(mc_sent, InitializeRequest)
    /\ \E o \in InitializeOutcomes :
         /\ mc_init' = o
         /\ IF o.kind = "ok"
            THEN /\ mc_session_id' = Get(o.response, "sessionId", "None")
                 /\ mc_pc' = "in_scope"
            ELSE /\ mc_pc' = "not_entered"
                 /\ UNCHANGED mc_session_id
    /\ UNCHANGED mc_closed
    /\ ClientUnchanged

\* The body calls a tool; call_tool re-raises what the request raised.
McCallTool ==
    /\ mc_pc = "in_scope"
    /\ Len(mc_sent) <= MaxScopeCalls
    /\ \E name \in ClientTools, ok \in BOOLEAN :
         /\ mc_sent' = Append(mc_sent, tool_payload(name, mc_session_id))
         /\ mc_pc' = IF ok THEN "in_scope" ELSE "body_raised"
    /\ UNCHANGED <<mc_session_id, mc_closed, mc_init>>
    /\ ClientUnchanged

\* The body ends, by reaching its end or by an exception of its own.
McBodyEnds ==
    /\ mc_pc = "in_scope"
    /\ \E how \in {"body_returned", "body_raised"} : mc_pc' = how
    /\ UNCHANGED <<mc_session_id, mc_closed, mc_sent, mc_init>>
    /\ ClientUnchanged

\* __aexit__: close
McExit ==
    /\ mc_pc \in {"body_returned", "body_raised"}
    /\ mc_closed' = TRUE
    /\ mc_pc' = IF mc_pc = "body_returned" THEN "left" ELSE "left_raising"
    /\ UNCHANGED <<mc_session_id, mc_sent, mc_init>>
    /\ ClientUnchanged

ClientNext == McEnter \/ McCallTool \/ McBodyEnds \/ McExit

ClientSpec == ClientInit /\ [][ClientNext]_vars

\* ------------------------------------------------------------ claims
\* C1: for max_attempts >= 1 and any sequence of analysis and
\* classification outcomes, a run of the compiled graph reaches
\* generate_feedback and then END, after at most max_attempts executions
\* of Analyze.
C1_RunTerminates ==
    /\ <>(pc = "END" /\ last_node = "generate_feedback")
    /\ [](analyze_runs <= state.max_attempts)

\* A run whose quality never improves used all three attempts and ended.
C1_Witness ==
    /\ pc = "END"
    /\ last_node = "generate_feedback"
    /\ state.max_attempts = 3
    /\ analyze_runs = 3
    /\ state.quality_issues # <<>>

C3_Original ==
    pc = "evaluated" =>
        /\ (~settings.reflection_enabled => last_route = "generate_feedback")
        /\ ((settings.reflection_enabled /\ state.quality_issues # <<>>)
              => last_route = "reflect")

\* C3 amended: should_reflect returns generate_feedback whenever reflection
\* is disabled; with reflection enabled and analysis_results present (not
\* None, not empty) it returns reflect whenever quality_issues is non-empty,
\* even when the summary's pass rate is 1.0.
C3_Amended ==
    pc = "evaluated" =>
        /\ (~settings.reflection_enabled => last_route = "generate_feedback")
        /\ ((settings.reflection_enabled /\ Truthy(state.analysis_results)
               /\ state.quality_issues # <<>>)
              => last_route = "reflect")

\* Issues recorded, pass rate 1.0, reflection enabled: routed to reflect.
C3_Witness ==
    /\ pc = "evaluated"
    /\ settings.reflection_enabled
    /\ state.quality_issues # <<>>
    /\ HasPassRate(state.analysis_results)
    /\ state.analysis_results.passes = state.analysis_results.total
    /\ last_route = "reflect"

\* C4: with enable_retry = false, max_attempts is 1, Analyze executes
\* exactly once, the retry edge is never taken and attempts_made is 1.
C4_NoRetryWhenDisabled ==
    ~enable_retry =>
        /\ state.max_attempts = 1
        /\ analyze_runs <= 1
        /\ pc # "retry"
        /\ last_route # "retry"
        /\ (result.returned => result.attempts_made = 1 /\ analyze_runs = 1)

\* Retry disabled, three attempts configured, failing quality reflected on.
C4_Witness ==
    /\ ~enable_retry
    /\ settings.max_retry_attempts = 3
    /\ result.returned
    /\ result.attempts_made = 1
    /\ result.quality_issues # <<>>
    /\ result.reflection_notes # <<>>

\* C5: completed is false in every state reached before
\* Generate-final-feedback has executed, and no other node sets it.
C5_CompletedOnlyByFeedback ==
    /\ [](state.completed => pc \in {"END", "returned"})
    /\ [][(~state.completed /\ state'.completed) => pc = "generate_feedback"]_vars

\* The feedback node has run after a reflection and set completed.
C5_Witness ==
    /\ state.completed
    /\ pc = "END"
    /\ state.reflection_notes # <<>>

\* C6: a client input error is answered with HTTP 400: on classify and
\* analyze-quality a request with only an image URL, with neither image
\* field, or with undecodable base64; on process-batch and workflow a
\* request from which no usable image results.
C6_ClientErrorsGive400 ==
    (/\ rt_pc = "responded"
     /\ \/ /\ rt_endpoint \in SingleImageEndpoints
           /\ rt_request[1] \in {"url_only", "neither", "base64_invalid"}
        \/ /\ rt_endpoint \in {"process_batch", "workflow"}
           /\ rt_i > Len(rt_request)
           /\ rt_image_paths = <<>>)
    => rt_status = 400

\* C7: on classify with valid base64 input the temporary file no longer
\* exists when the response is returned, for a successful tool result and
\* for a tool result carrying an error key.
C7_ClassifyTempFileDeleted ==
    (/\ rt_endpoint = "classify"
     /\ rt_request = <<"base64_valid">>
     /\ rt_pc = "responded"
     /\ rt_tool \in {"ok", "tool_error"})
    => (rt_created = {1} /\ 1 \notin temp_files /\ rt_status = 200)

\* The tool returned an error map and the file written for the request is gone.
C7_Witness ==
    /\ rt_endpoint = "classify"
    /\ rt_request = <<"base64_valid">>
    /\ rt_pc = "responded"
    /\ rt_tool = "tool_error"
    /\ rt_created = {1}
    /\ temp_files = {}

\* C8: when a handler has answered, every temporary file it created has
\* been deleted or handed to the background cleanup task, whatever the
\* exit path.
C8_TempFilesAlwaysCleaned ==
    rt_pc \in {"responded", "done"}
    => \A f \in rt_created :
          f \notin temp_files \/ f \in background_tasks.paths

\* C9: on a batch that passed validation, a failed classification or
\* quality analysis of an image is recorded as an error entry with combined
\* score 0 and process still returns the results list and summary.
C9_ItemFailureIsolated ==
    (/\ bp_pc = "done"
     /\ bp_paths >= 1
     /\ Len(bp_completed.quality) = bp_paths
     /\ \E i \in 1..bp_paths :
           \/ bp_classifications[i].kind \in {"error", "raised"}
           \/ bp_quality_analyses[i].kind \in {"error", "raised"})
    => /\ bp_result.kind = "batch"
       /\ \A i \in 1..bp_paths :
            (\/ bp_classifications[i].kind \in {"error", "raised"}
             \/ bp_quality_analyses[i].kind \in {"error", "raised"})
            => /\ bp_result.results[i].combined_score = 0
               /\ \/ HasError(bp_result.results[i].classification)
                  \/ HasError(bp_result.results[i].quality_analysis)

\* C10: a successful batch call returns one result per input path in input
\* order, each carrying that image's classification and quality analysis,
\* and total_images = processed_images = len(results), for every order in
\* which the tasks completed.
C10_ResultsInInputOrder ==
    (bp_pc = "done" /\ bp_result.kind = "batch")
    => /\ bp_result.total_images = bp_paths
       /\ bp_result.processed_images = bp_paths
       /\ Len(bp_result.results) = bp_paths
       /\ \A i \in 1..bp_paths :
            /\ bp_result.results[i].image_path = i
            /\ bp_result.results[i].classification
                 = WrapException(bp_classifications[i])
            /\ bp_result.results[i].quality_analysis
                 = WrapException(bp_quality_analyses[i])

\* Two images differing in category whose tasks completed in reverse order.
C10_Witness ==
    /\ bp_pc = "done"
    /\ bp_result.kind = "batch"
    /\ bp_paths = 2
    /\ bp_completed = [classify |-> <<2, 1>>, quality |-> <<2, 1>>]
    /\ bp_result.results[1].classification.image_path = 1
    /\ bp_result.results[1].classification.classification.category = "other"
    /\ bp_result.results[2].classification.classification.category
         = "equipment_photo"

\* C11: validate_batch_images either returns the whole input list
\* unchanged, every path having validated, or raises one validation error
\* whose message names every failing path; it never returns a partial list.
C11_ValidateAllOrNothing ==
    (call_fn = "validate_batch_images" /\ call_result # NotCalled)
    => LET file_paths == call_args[1]
           failing == {file_paths[k] : k \in {j \in DOMAIN file_paths :
                                                file_paths[j] \notin call_args[2]}}
       IN  IF failing = {}
           THEN call_result = [kind |-> "returned", value |-> file_paths]
           ELSE /\ call_result.kind = "raised"
                /\ call_result.exception = "ValidationError"
                /\ {call_result.message[k] : k \in DOMAIN call_result.message}
                     = failing

\* Three valid images and one missing file: the call raised, naming it.
C11_Witness ==
    /\ call_fn = "validate_batch_images"
    /\ call_args = <<(<<"a.jpg", "b.jpg", "a.jpg", "c.jpg">>), {"a.jpg", "b.jpg"}>>
    /\ call_result.kind = "raised"
    /\ call_result.message = <<"c.jpg">>

\* C12: call_tool never raises: a known name with its arguments present is
\* dispatched to exactly the matching tool, and an unknown name, a missing
\* argument or a tool failure gives an {error} map.
C12_CallToolNeverRaises ==
    (srv_mode = "call" /\ srv_pc = "done")
    => /\ srv_result.kind \in {"result", "error"}
       /\ (srv_name \notin ToolNames \/ ~srv_arguments.required)
             => srv_result.kind = "error"
       /\ srv_result.kind = "result" =>
             /\ srv_name \in ToolNames
             /\ srv_result.tool = ToolFor(srv_name)
       /\ srv_result.tool \in {"none", ToolFor(srv_name)}

\* An unknown tool name was answered with an error map.
C12_Witness ==
    /\ srv_mode = "call"
    /\ srv_pc = "done"
    /\ srv_name = "resize_photo"
    /\ srv_result = ErrorMap("Unknown tool")

\* C13: the streamed events are started, progress (process_batch only),
\* result, completed in that order; when the tool invocation fails (unknown
\* name or tool failure) a single error event takes the place of result
\* and completed.
C13_StreamEventOrder ==
    (srv_mode = "stream" /\ srv_pc = "done")
    => LET statuses == [k \in DOMAIN srv_events |-> srv_events[k].status]
           head == IF srv_name = "process_batch"
                   THEN <<"started", "progress">> ELSE <<"started">>
           failed == srv_name \notin ToolNames \/ srv_result.kind # "result"
       IN  IF failed
           THEN statuses = head \o <<"error">>
           ELSE \/ statuses = head \o <<"result", "completed">>
                \/ statuses = head \o <<"error">>

\* C14: the process-batch-stream response starts with a started event
\* carrying the total image count, relays the chunks of the MCP client's
\* stream in the order received and ends with a completed event; when
\* image preparation or streaming fails the stream carries an event with
\* status error and the handler does not raise.
C14_BatchStreamEvents ==
    (rt_endpoint = "process_batch_stream" /\ rt_pc = "responded")
    => /\ rt_status = 200
       /\ IF rt_tool = "ok"
          THEN /\ rt_events[1] = [status |-> "started",
                                  total_images |-> Len(rt_image_paths)]
               /\ rt_events[Len(rt_events)] = Event("completed")
               /\ \A k \in 2..(Len(rt_events) - 1) :
                    rt_events[k] = [status |-> "chunk", seq |-> k - 1]
          ELSE \E k \in DOMAIN rt_events : rt_events[k].status = "error"

\* C15: the workflow stream starts with started, reports every step that
\* runs as a processing event followed by the step_completed event of the
\* same step, and ends with exactly one terminal event: result with
\* success true when the run completed, or a single error event with
\* success false after an exception.
C15_WorkflowStreamEvents ==
    pc = "stream_done"
    => LET n == Len(stream_events)
       IN  /\ stream_events[1].status = "started"
           /\ \A k \in 1..n :
                stream_events[k].status = "processing"
                => /\ k < n
                   /\ \/ stream_events[k + 1].status = "error"
                      \/ stream_events[k + 1] =
                           StepEvent("step_completed", stream_events[k].step)
           /\ stream_events[n].status \in {"result", "error"}
           /\ \A k \in 1..(n - 1) :
                stream_events[k].status \notin {"result", "error"}
           /\ state.completed
                => (stream_events[n].status = "result"
                    /\ stream_events[n].success)

C17_ClassifierPreparesOnly ==
    (call_fn = "PhotoClassifierTool.classify" /\ call_result # NotCalled)
    => /\ call_result.kind = "returned"
       /\ ~call_result.model_called
       /\ IF call_args.valid
          THEN /\ DOMAIN call_result.value =
                    {"image_path", "image_data", "metadata", "job_context",
                     "categories", "ready_for_llm_analysis"}
               /\ call_result.value.categories = PhotoCategories
               /\ call_result.value.ready_for_llm_analysis
          ELSE DOMAIN call_result.value = {"error", "image_path"}

\* C18: a step of one workflow run never changes what the other run sees:
\* the other run's messages, quality_issues, reflection_notes,
\* current_attempt, retry_needed, analysis_results and result stay as they
\* were, under every interleaving of the two runs.
C18_RunsShareNoState ==
    [][\A r \in RunIds : (cc_last' # r) => (View(r)' = View(r))]_vars

\* Both runs are under way, one of them in its second attempt, and their
\* message lists differ.
C18_Witness ==
    /\ cc_runs[1].pc = "classify_with_llm"
    /\ cc_runs[2].pc = "reflect"
    /\ cc_runs[1].state.current_attempt = 2
    /\ cc_runs[2].state.current_attempt = 1
    /\ cc_runs[1].state.messages # cc_runs[2].state.messages
    /\ Len(cc_heap[cc_runs[1].state.messages])
         > Len(cc_heap[cc_runs[2].state.messages])
    /\ cc_last = 2

\* C19: the combined score is 0 when either sub-result holds "error";
\* otherwise it is (confidence*0.4 + quality_score*0.6) * m rounded to three
\* decimals, m being 1.0, 0.7, 0.3 for relevance high, medium, low and 0.7
\* for a missing or unrecognized relevance; confidence 0.9 with quality 0.8
\* scores 0.84 under high and 0.252 under low (scores in thousandths).
C19_CombinedScore ==
    (call_fn = "_calculate_combined_score" /\ call_result # NotCalled) =>
        LET c == call_args[1]
            q == call_args[2]
        IN  /\ (c.kind = "error" \/ q.kind = "error") => call_result.score = 0
            /\ ( /\ c.kind = "ok" /\ q.kind = "ok"
                 /\ "classification" \in DOMAIN c
                 /\ "confidence" \in DOMAIN c.classification
                 /\ "quality_score" \in DOMAIN q ) =>
                 LET inner == c.classification
                     m == IF "relevance" \notin DOMAIN inner THEN 7
                          ELSE CASE inner.relevance = "high" -> 10
                                 [] inner.relevance = "medium" -> 7
                                 [] inner.relevance = "low" -> 3
                                 [] OTHER -> 7
                     exact == (inner.confidence * 4 + q.quality_score * 6) * m
                 IN  /\ 200 * call_result.score >= 2 * exact - 100
                     /\ 200 * call_result.score <= 2 * exact + 100
                     /\ (inner.confidence = 900 /\ q.quality_score = 800
                           /\ m = 10) => call_result.score = 840
                     /\ (inner.confidence = 900 /\ q.quality_score = 800
                           /\ m = 3) => call_result.score = 252

\* Confidence 0.905 and quality 0.333 under an unrecognized relevance have
\* been scored: 56.18 * 0.7 = 39.326 rounds to 0.393.
C19_Witness ==
    /\ call_fn = "_calculate_combined_score"
    /\ call_args[1] = [kind |-> "ok", classification |->
                          [confidence |-> 905, relevance |-> "critical"]]
    /\ call_args[2] = [kind |-> "ok", quality_score |-> 333]
    /\ call_result = [score |-> 393]

\* C20: with both lists non-empty the priority level is "high" exactly when
\* more than half of the quality results fail their threshold, "medium"
\* exactly when more than a fifth and at most half fail, "low" otherwise;
\* it is "medium" when either list is empty. Of 10 results, 6 failing give
\* high, 3 give medium, 1 gives low.
C20_PriorityLevel ==
    (call_fn = "_determine_priority_level" /\ call_result # NotCalled) =>
        LET qas == call_args[2]
            total == Len(qas)
            failing == Cardinality({i \in 1..total :
                          \/ "passes_threshold" \notin DOMAIN qas[i]
                          \/ ~ qas[i].passes_threshold})
            level == call_result.priority_level
        IN  IF call_args[1] = <<>> \/ qas = <<>> THEN level = "medium"
            ELSE /\ level = "high" <=> 2 * failing > total
                 /\ level = "medium" <=>
                        (5 * failing > total /\ 2 * failing <= total)
                 /\ level = "low" <=> 5 * failing <= total
                 /\ (total = 10 /\ failing = 6) => level = "high"
                 /\ (total = 10 /\ failing = 3) => level = "medium"
                 /\ (total = 10 /\ failing = 1) => level = "low"

\* Ten results of which exactly half fail, two of them for want of the
\* "passes_threshold" key, have been rated "medium".
C20_Witness ==
    /\ call_fn = "_determine_priority_level"
    /\ call_args[1] # <<>>
    /\ Len(call_args[2]) = 10
    /\ \A i \in 1..5 : call_args[2][i] = [passes_threshold |-> TRUE]
    /\ \A i \in 6..8 : call_args[2][i] = [passes_threshold |-> FALSE]
    /\ \A i \in 9..10 : call_args[2][i] = [quality_score |-> 500]
    /\ call_result = [priority_level |-> "medium"]

\* C21: a Reflect step is followed by Prepare-retry exactly when the pass
\* rate it read (0 when the summary carries none) is below 0.5 while
\* current_attempt < max_attempts and reflection is enabled; every other
\* Reflect step is followed by Generate-final-feedback.
C21_RetryEdge ==
    [][pc = "reflect" =>
         LET ar == state.analysis_results
             observed_below_half ==
                 IF ar.kind = "results" /\ ar.has_rate
                 THEN 2 * ar.passes < ar.total
                 ELSE TRUE
             retry == /\ observed_below_half
                      /\ state.current_attempt < state.max_attempts
                      /\ settings.reflection_enabled
         IN  pc' = IF retry THEN "retry" ELSE "generate_feedback"]_vars

\* Reflect has just run in the first of several attempts on results of
\* which exactly half passed, and Generate-final-feedback follows.
C21_Witness ==
    /\ last_node = "reflect"
    /\ pc = "generate_feedback"
    /\ state.analysis_results.kind = "results"
    /\ state.analysis_results.total = 2 * state.analysis_results.passes
    /\ state.analysis_results.total > 0
    /\ state.current_attempt < state.max_attempts
    /\ settings.reflection_enabled

\* C22: in the node-composed graph Analyze is always followed at once by
\* Classify-with-LLM; Reflect runs only right after Classify-with-LLM;
\* Prepare-retry runs only right after Reflect and is always followed at once
\* by Analyze; Generate-final-feedback runs in every run, is followed by END
\* (so it runs once), and nothing else leads to END.
C22_Topology ==
    /\ [][/\ (pc = "analyze" => pc' = "classify_with_llm")
          /\ (pc' = "reflect" => pc = "classify_with_llm")
          /\ (pc' = "retry" => pc = "reflect")
          /\ (pc = "retry" => pc' = "analyze")
          /\ (pc = "generate_feedback" => pc' = "END")
          /\ (pc' = "END" => pc = "generate_feedback")
          /\ (pc = "END" => pc' = "returned")
          /\ (pc = "returned" => pc' = "returned")]_vars
    /\ <>(pc = "END" /\ last_node = "generate_feedback")

\* A node-composed run has gone through the retry loop twice and ended.
C22_Witness ==
    /\ variant = "composed"
    /\ pc = "END"
    /\ last_node = "generate_feedback"
    /\ analyze_runs = 3
    /\ state.current_attempt = 3

\* C23: no node lets an exception out into the graph, whatever the MCP and
\* LLM calls do: every node step leads to a node of the graph or to END and
\* the run returns success; an Analyze pass of the node-composed graph whose
\* MCP scope failed leaves quality_issues as the single "Analysis error"
\* entry and is followed by Classify-with-LLM.
C23_NodesSwallowFailures ==
    [][/\ pc' # "raised"
       /\ (result'.returned => result'.success)
       /\ (pc = "analyze" /\ variant = "composed" =>
             /\ pc' = "classify_with_llm"
             /\ (state'.messages[Len(state'.messages)] # "preprocessing_completed"
                   => /\ state'.quality_issues = AnalysisError
                      /\ state'.messages =
                             Append(state.messages, "analysis_failed")))]_vars

\* The MCP scope of the first Analyze pass failed, and so did
\* Classify-with-LLM after it; the workflow went on and returned.
C23_Witness ==
    /\ variant = "composed"
    /\ pc = "returned"
    /\ result.success
    /\ state.messages[2] = "analysis_failed"
    /\ state.messages[3] = "llm_failed"
    /\ state.quality_issues = AnalysisError

\* C24: when the workflow has ended, either Generate-final-feedback
\* completed without an exception and completed is true, or it raised,
\* final_feedback is "Feedback generation failed: <message>" and completed is
\* false; in both cases final_feedback is not null.
C24_FeedbackOutcome ==
    pc \in {"END", "returned"} =>
        /\ \/ state.completed /\ state.final_feedback # "failed"
           \/ ~state.completed /\ state.final_feedback = "failed"
        /\ state.final_feedback # "None"

\* C25: in a scope of MCPHttpClient the initialize request is the first
\* request sent and its sessionId is recorded before any tool call; every
\* tool call of the scope carries that sessionId; once the scope is left,
\* normally or by an exception, the connection pool has been released.
C25_ScopedSession ==
    /\ \A i \in DOMAIN mc_sent :
         mc_sent[i].kind = "tool" =>
             /\ i > 1
             /\ mc_sent[1].kind = "initialize"
             /\ mc_init.kind = "ok"
             /\ ("sessionId" \in DOMAIN mc_init.response =>
                   /\ mc_session_id = mc_init.response.sessionId
                   /\ "sessionId" \in DOMAIN mc_sent[i]
                   /\ mc_sent[i].sessionId = mc_init.response.sessionId)
    /\ \A i \in DOMAIN mc_sent : i > 1 => mc_sent[i].kind = "tool"
    /\ (mc_pc \in {"left", "left_raising"} => mc_closed)

\* A scope in which two tool calls carried the session and the third raised
\* has been left.
C25_Witness ==
    /\ mc_pc = "left_raising"
    /\ mc_closed
    /\ Len(mc_sent) = 4
    /\ mc_init = [kind |-> "ok", response |-> [sessionId |-> "mcp-session-001"]]
    /\ \A i \in 2..4 : mc_sent[i].sessionId = "mcp-session-001"

\* C26: no MCP client is used after its connection pool was released: each
\* scope a workflow run enters (every Analyze pass, and the feedback step
\* when there are results) is entered on a client that was not closed
\* before. The node-composed graph creates its client inside the node; the
\* monolithic agent enters the scopes on self.mcp_client.
C26_NoClientUsedAfterClose ==
    [][(/\ variant = "monolithic"
        /\ \/ pc = "analyze"
           \/ pc = "generate_feedback" /\ HasResults(state.analysis_results))
       => ~client_closed]_vars

\* C27: in the node-composed graph, once Classify-with-LLM has run,
\* analysis_results is a {results, summary} map or an {error} map, never
\* absent or empty; so should_reflect (evaluated after Classify-with-LLM) and
\* Reflect never take their "no analysis results" branch.
C27_AnalysisResultsPresent ==
    variant = "composed" =>
        /\ (\/ last_node \in {"classify_with_llm", "reflect", "retry",
                              "generate_feedback"}
            \/ analyze_runs > 1)
              => state.analysis_results.kind \in {"results", "error"}
        /\ (last_node = "classify_with_llm" \/ pc = "reflect")
              => Truthy(state.analysis_results)

\* Analyze and then Classify-with-LLM failed, and Reflect is about to run on
\* the {error} map.
C27_Witness ==
    /\ variant = "composed"
    /\ pc = "reflect"
    /\ last_node = "classify_with_llm"
    /\ state.analysis_results = ErrorResults
    /\ state.quality_issues = AnalysisError

C29_StreamAtMostOneRetry ==
    /\ analyze_runs <= 2
    /\ Count(stream_events, StepEvent("processing", "reflection")) <= 1
    /\ Count(state.messages, "reflection_completed") <= 1
    /\ state.current_attempt <= 2
    /\ (analyze_runs = 2 =>
           pc \in {"stream_feedback", "stream_result", "stream_done"})
    /\ \A i \in DOMAIN stream_events :
         /\ (stream_events[i] = StepEvent("step_completed", "retry_analysis")
               /\ i < Len(stream_events))
              => stream_events[i + 1] = StepEvent("processing", "feedback")
         /\ stream_events[i].status = "result"
              => stream_events[i].attempts_made <= 2

\* A call allowed three attempts has made its retry pass and finished.
C29_Witness ==
    /\ pc = "stream_done"
    /\ state.max_attempts = 3
    /\ analyze_runs = 2
    /\ state.current_attempt = 2
    /\ state.retry_needed
    /\ Count(stream_events, StepEvent("processing", "reflection")) = 1

\* C30: in every run of the compiled graph, after each execution of Analyze
\* current_attempt equals the number of Analyze executions so far, so a
\* returned run reports attempts_made equal to its number of Analyze passes.
C30_AttemptCountsAnalyzePasses ==
    /\ (last_node \in {"analyze", "classify_with_llm", "reflect",
                       "generate_feedback"}
          => state.current_attempt = analyze_runs)
    /\ (last_node = "retry" => state.current_attempt = analyze_runs + 1)
    /\ (pc = "returned" /\ result.success
          => result.attempts_made = analyze_runs)

\* A run that made its third Analyze pass has returned three attempts.
C30_Witness ==
    /\ pc = "returned"
    /\ result.success
    /\ analyze_runs = 3
    /\ result.attempts_made = 3
    /\ last_node = "generate_feedback"
====
